---- MODULE Spec2Model ----
(***************************************************************************)
(* Model of the dbgcopilot orchestrator turn loop                          *)
(* (src/src/dbgcopilot/core/orchestrator.py, core/state.py) together with  *)
(* the REPL commands that change the session fields the turn loop reads    *)
(* (src/src/dbgcopilot/repl/standalone.py).                                *)
(*                                                                         *)
(* Python strings are TLA+ strings; a text is built with \o exactly as the *)
(* code builds it, so Len gives the length the code compares.  Optional    *)
(* values (None | v) are the sequences << >> and << v >>.                  *)
(***************************************************************************)
EXTENDS Integers, Sequences, FiniteSets, TLC

(***************************************************************************)
(* Bounds of the model.                                                    *)
(***************************************************************************)
\* prompt_config["max_context_chars"] as loaded from the prompt file
MaxContextChars == 309
\* number of session-id rotations explored
MaxSessions == 1
\* a new user turn is accepted while the chatlog has at most this many lines
\* (turns that hit the overflow guard are always accepted)
MaxChatLines == 2
MaxSteps == 3
MaxEmptyCount == 3

(***************************************************************************)
(* Program constants.                                                      *)
(***************************************************************************)
DEFAULT_AUTO_ROUND_LIMIT == 64
DEFAULT_MAX_CONTEXT_CHARS == 16000
SNIPPET_CHARS == 160
SUMMARY_CHAT_TAIL == 40
RECENT_ATTEMPTS == 5

(***************************************************************************)
(* Generic helpers.                                                        *)
(***************************************************************************)
None == << >>
Some(v) == << v >>

LastN(seq, n) == IF Len(seq) <= n THEN seq ELSE SubSeq(seq, Len(seq) - n + 1, Len(seq))

RECURSIVE SumLen(_)
SumLen(lines) == IF lines = << >> THEN 0 ELSE Len(Head(lines)) + SumLen(Tail(lines))

\* len("\n".join(lines))
JoinedLen(lines) == IF lines = << >> THEN 0 ELSE SumLen(lines) + (Len(lines) - 1)

(***************************************************************************)
(* utils/io.py: ANSI colouring.                                            *)
(***************************************************************************)
CODE_RESET == "[0m"
CODE_BOLD == "[1m"
CODE_RED == "[31m"
CODE_GREEN == "[32m"
CODE_CYAN == "[36m"

color_code(color) ==
    CASE color = "red" -> CODE_RED
      [] color = "green" -> CODE_GREEN
      [] color = "cyan" -> CODE_CYAN
      [] OTHER -> ""

color_text(s, color, bold, enable) ==
    IF ~enable \/ color_code(color) = "" THEN s
    ELSE (IF bold THEN CODE_BOLD ELSE "") \o color_code(color) \o s \o CODE_RESET

(***************************************************************************)
(* Inputs: the texts a user types, the replies a provider gives, the       *)
(* outputs a debugger returns.                                             *)
(***************************************************************************)
Pad50 == "0123456789012345678901234567890123456789012345678 "
\* a pasted text long enough to fill the context in two turns
LongText == "stack: " \o Pad50 \o Pad50 \o Pad50 \o "end"

UserTexts ==
    { "YES ", "a", "", LongText, "new session", "summarize and new session" }

\* str.strip() on the texts of the model that carry outer whitespace
Strip(s) ==
    CASE s = "YES " -> "YES"
      [] s = " bt " -> "bt"
      [] s = " "    -> ""
      [] OTHER      -> s

\* str.lower() on the texts of the model that carry upper-case letters and
\* can equal one of the lower-case choices the code compares with
Lower(s) ==
    CASE s = "YES" -> "yes"
      [] s = "Q"   -> "q"
      [] OTHER     -> s

\* A provider reply is a sequence of segments: plain text, or one
\* <cmd>...</cmd> element with its inner text.
Txt(s) == [tag |-> FALSE, s |-> s]
Cmd(s) == [tag |-> TRUE, s |-> s]

AnsFinal == << Txt("Done.") >>
AnsTwoCmds == << Txt("Stack:"), Cmd(" bt "), Txt("then"), Cmd("run") >>
AnsEmptyTag == << Cmd(" ") >>
Answers == { AnsFinal, AnsTwoCmds, AnsEmptyTag }

\* what a provider client call does: return a reply, or raise
ProviderOutcomes == { [raised |-> FALSE, answer |-> a] : a \in Answers }
                      \cup { [raised |-> TRUE, answer |-> << >>] }

\* a summary the provider returns for the summarisation prompt, as its lines
Summaries == { << "- crash in main", "- next: bt" >>, << >> }
SummaryOutcomes == { [raised |-> FALSE, lines |-> l] : l \in Summaries }
                     \cup { [raised |-> TRUE, lines |-> << >>] }

\* backend.name and what backend.run_command returns
BackendName == "gdb"
BackendOutputs == { "#0 main () at a.c:3" }

\* seq[-1]
Last_(seq) == seq[Len(seq)]

SegText(seg) == IF seg.tag THEN "<cmd>" \o seg.s \o "</cmd>" ELSE seg.s

RECURSIVE RawAnswer(_)
\* the reply as the string the client returned
RawAnswer(answer) ==
    IF answer = << >> THEN "" ELSE SegText(Head(answer)) \o RawAnswer(Tail(answer))

RECURSIVE PlainSegs(_)
PlainSegs(answer) ==
    IF answer = << >> THEN ""
    ELSE (IF Head(answer).tag THEN "" ELSE Head(answer).s) \o PlainSegs(Tail(answer))

\* re.sub(r"<cmd>[\s\S]*?</cmd>", "", raw_answer).strip()
_extract_explanation(answer) == Strip(PlainSegs(answer))

RECURSIVE FirstCmd_last(_)
\* an extraction that takes the last <cmd> element
FirstCmd_last(answer) ==
    IF answer = << >> THEN None
    ELSE IF Last_(answer).tag THEN Some(Strip(Last_(answer).s))
    ELSE FirstCmd_last(SubSeq(answer, 1, Len(answer) - 1))

RECURSIVE FirstCmd(_)
\* re.search(r"<cmd>\s*([\s\S]*?)\s*</cmd>", answer): None, or group(1).strip()
\* of the first element
FirstCmd(answer) ==
    IF answer = << >> THEN None
    ELSE IF Head(answer).tag THEN Some(Strip(Head(answer).s))
    ELSE FirstCmd(Tail(answer))

\* the commands replies of the model can carry
Commands == { FirstCmd(a)[1] : a \in { b \in Answers : FirstCmd(b) # None } }

_prefix_dbg_echo(cmd, label, colors) ==
    color_text(label \o "> " \o cmd, "cyan", TRUE, colors)

\* _execute_and_format, given what backend.run_command returned
_execute_and_format(cmd, out, colors) ==
    LET echoed == _prefix_dbg_echo(cmd, BackendName, colors)
    IN  IF out # "" THEN echoed \o "\n" \o out ELSE echoed

\* the (cmd, out, colors) a formatted output of the model was built from
FormattedFrom(s) ==
    { w \in Commands \X BackendOutputs \X BOOLEAN :
        s = _execute_and_format(w[1], w[2], w[3]) }

\* strip_ansi: the only texts of the model that carry ANSI sequences when it
\* is applied are formatted debugger outputs
strip_ansi(s) ==
    IF FormattedFrom(s) = {} THEN s
    ELSE LET w == CHOOSE v \in FormattedFrom(s) : TRUE
         IN  _execute_and_format(w[1], w[2], FALSE)

\* s.splitlines()[0] for a formatted debugger output or a one-line text
FirstLine(s) ==
    IF FormattedFrom(s) = {} THEN s
    ELSE LET w == CHOOSE v \in FormattedFrom(s) : TRUE
         IN  _prefix_dbg_echo(w[1], BackendName, w[3])

\* s.replace("\n", "\n  ") for a formatted debugger output or a one-line text
IndentLines(s) ==
    IF FormattedFrom(s) = {} THEN s
    ELSE LET w == CHOOSE v \in FormattedFrom(s) : TRUE
         IN  _prefix_dbg_echo(w[1], BackendName, w[3])
             \o (IF w[2] # "" THEN "\n  " \o w[2] ELSE "")

\* s[:n]; the texts of the model it is applied to are shorter than n
Prefix(s, n) == IF Len(s) <= n THEN s ELSE "<first " \o ToString(n) \o " chars>"

\* the backquote character; one character, written as an apostrophe because
\* the parser does not take a backquote inside a string
BACKQUOTE == "'"

_build_followup_prompt(command, exec_output) ==
    LET plain == strip_ansi(exec_output)
    IN  "The debugger command " \o BACKQUOTE \o command \o BACKQUOTE \o " was executed."
        \o "\n" \o "Debugger output:"
        \o "\n" \o (IF plain # "" THEN plain ELSE "(no output)")
        \o "\n" \o "What should we do next? Remember to wrap any future debugger commands inside <cmd>...</cmd>."

OVERFLOW_PROMPT ==
    "Your session context is quite large. Would you like me to summarize the "
    \o "current session and start a new one from that summary, or start a fresh session "
    \o "without a summary? Reply with 'summarize and new session' or 'new session'."

SKIPPED == "Command skipped."
AUTO_PREFIX == "Auto-accept enabled for this session."
RUN_IT == "Run it? (y(es)/n(o)/a(uto yes))"
READY == "I'm ready to help. Ask anything about your debug session."

\* str(uuid.uuid4())[:8] for the n-th identifier drawn
UuidStr(n) == "uuid" \o ToString(n)

(***************************************************************************)
(* State: the fields of SessionState (core/state.py), the orchestrator's   *)
(* prompt_config entry the turn loop reads, and the record of the last     *)
(* operation (what it was given, what it returned, which calls it made).   *)
(***************************************************************************)
VARIABLES
    session_id,            \* n: the session id is the n-th uuid drawn
    facts,                 \* sequence of [k, s]: k in {"Q","A","O","Summary"}, s the text
    chatlog,               \* sequence of [k, s, cmd]: s the line, k its kind
    attempts,              \* sequence of [cmd, output_snippet]
    last_output,
    config,                \* the keys of SessionState.config the turn loop and /auto use
    selected_provider,     \* None | name
    pending_command,       \* None | command
    auto_accept_commands,
    auto_rounds_remaining, \* None | n
    pending_outputs,
    pending_chat,
    pending_chat_events,
    last_answer_streamed,
    colors_enabled,
    debugger_output_sink,  \* "none" | "ok" | "raises"
    chat_output_sink,      \* "none" | "ok" | "raises"
    max_context_chars,     \* prompt_config.get("max_context_chars"): None | n
    op,                    \* the last operation: "init" | "ask" | "drain" | "auto_on" | "auto_off" | "llm_use"
    arg,                   \* the text the last operation was given
    ret,                   \* what the last ask() returned, as the segments joined by "\n"
    calls,                 \* provider calls the last operation made
    ran,                   \* commands the last operation sent to backend.run_command
    guards,                \* overflow guard evaluations of the last operation:
                           \* [len, hit, calls_before]
    sunk,                  \* chunks the last operation pushed into a sink: [sink, chunk]
    \* dbgagent's DebugAgentRunner (runner.py); its AgentState has the fields
    \* attempts, chatlog, facts and last_output declared above
    request,               \* AgentRequest: [debugger, program, corefile, max_steps], None without a runner
    agent_pc,              \* where run() stands: "off" | "created" | "loop" | "done" | "raised"
    step,                  \* the step of _auto_loop's for statement
    final_report,          \* what _auto_loop returned: None | <<text>>
    \* a debugger backend (dbgcopilot/backends) driven through run_command
    backend_name,          \* the backend's name attribute, None without a backend under test
    child,                 \* self.child / self._r2: "none" | "alive" | "dead" (a handle whose process ended)
    timeout_reported,      \* LldbSubprocessBackend._timeout_reported
    empty_count,           \* LldbSubprocessBackend._empty_count
    suggested_once,        \* LldbSubprocessBackend._suggested_once
    raised,                \* whether the last run_command raised instead of returning
    inits,                 \* how the initialize_session calls of the last run_command ended
    \* the radare2 backend's stderr capture (backends/radare2_subprocess.py)
    r2_gen,                \* which child self._r2 is: 0 none, n the n-th one opened
    r2_main,               \* where run_command stands: [pc, leading]
    pumps,                 \* child n -> the _pump thread started for it: [pc, n, chunk]
    stderr_buffer,         \* self._stderr_buffer: chunks [gen, n], the n-th chunk child gen wrote
    \* dbgweb's SessionManager (dbgweb/app/services/session_manager.py)
    web_sessions,          \* the keys of SessionManager.sessions
    web_backends,          \* session id -> [debugger, child]: every backend created so far
    web_workers,           \* calls running on worker threads (asyncio.to_thread): [sid, kind, n]
    \* the provider registry (dbgcopilot/llm/providers.py)
    cfg_file,              \* the "providers" object of llm_providers.json: name -> entry
    config_cache,          \* _config_cache
    registry,              \* _registry: name -> meta of the Provider built for it
    reg_threads,           \* thread -> [pc, name, data]: a mutating call in progress
    \* provider parameters (dbgcopilot/llm/params.py, openai_compat.py)
    params,                \* config[params_key(provider)]: None | canonical -> value
    body                   \* the request body the last request posted: path -> node

sessionVars ==
    << session_id, facts, chatlog, attempts, last_output, config, selected_provider,
       pending_command, auto_accept_commands, auto_rounds_remaining, pending_outputs,
       pending_chat, pending_chat_events, last_answer_streamed, colors_enabled,
       debugger_output_sink, chat_output_sink >>

logVars == << op, arg, ret, calls, ran, guards, sunk >>

agentVars == << request, agent_pc, step, final_report >>

pumpVars == << r2_gen, r2_main, pumps, stderr_buffer >>

backendVars == << backend_name, child, timeout_reported, empty_count, suggested_once,
                 raised, inits, pumpVars >>

webVars == << web_sessions, web_backends, web_workers >>

registryVars == << cfg_file, config_cache, registry, reg_threads >>

paramVars == << params, body >>

serviceVars == << webVars, registryVars, paramVars >>

vars == << sessionVars, max_context_chars, logVars, agentVars, backendVars, serviceVars >>

\* no session manager exists
NoWeb ==
    /\ web_sessions = {}
    /\ web_backends = << >>
    /\ web_workers = {}

\* the provider registry is not loaded
NoRegistry ==
    /\ cfg_file = << >>
    /\ config_cache = << >>
    /\ registry = << >>
    /\ reg_threads = << >>

\* no provider parameter is set and no request was built
NoParams ==
    /\ params = << >>
    /\ body = << >>

NoServices == NoWeb /\ NoRegistry /\ NoParams

\* no radare2 stderr capture is running
NoPump ==
    /\ r2_gen = 0
    /\ r2_main = << >>
    /\ pumps = << >>
    /\ stderr_buffer = << >>

\* no backend is under test
NoBackend ==
    /\ NoPump
    /\ backend_name = << >>
    /\ child = "none"
    /\ timeout_reported = FALSE
    /\ empty_count = 0
    /\ suggested_once = FALSE
    /\ raised = FALSE
    /\ inits = << >>

\* no dbgagent runner exists
NoAgent ==
    /\ request = << >>
    /\ agent_pc = "off"
    /\ step = 0
    /\ final_report = << >>

SinkModes == { "none", "ok", "raises" }
ProviderName == "mock"
\* values config["auto_round_limit"] takes in the model
ConfigLimits == { None, Some("1") }

\* the session and the call record as one value, for the operators below
Pack ==
    [ session_id |-> session_id, facts |-> facts, chatlog |-> chatlog,
      attempts |-> attempts, last_output |-> last_output, config |-> config,
      selected_provider |-> selected_provider, pending_command |-> pending_command,
      auto_accept_commands |-> auto_accept_commands,
      auto_rounds_remaining |-> auto_rounds_remaining,
      pending_outputs |-> pending_outputs, pending_chat |-> pending_chat,
      pending_chat_events |-> pending_chat_events,
      last_answer_streamed |-> last_answer_streamed, colors_enabled |-> colors_enabled,
      debugger_output_sink |-> debugger_output_sink, chat_output_sink |-> chat_output_sink,
      max_context_chars |-> max_context_chars,
      calls |-> << >>, ran |-> << >>, guards |-> << >>, sunk |-> << >> ]

Install(st) ==
    /\ session_id' = st.session_id
    /\ facts' = st.facts
    /\ chatlog' = st.chatlog
    /\ attempts' = st.attempts
    /\ last_output' = st.last_output
    /\ config' = st.config
    /\ selected_provider' = st.selected_provider
    /\ pending_command' = st.pending_command
    /\ auto_accept_commands' = st.auto_accept_commands
    /\ auto_rounds_remaining' = st.auto_rounds_remaining
    /\ pending_outputs' = st.pending_outputs
    /\ pending_chat' = st.pending_chat
    /\ pending_chat_events' = st.pending_chat_events
    /\ last_answer_streamed' = st.last_answer_streamed
    /\ colors_enabled' = st.colors_enabled
    /\ debugger_output_sink' = st.debugger_output_sink
    /\ chat_output_sink' = st.chat_output_sink
    /\ max_context_chars' = st.max_context_chars
    /\ calls' = st.calls
    /\ ran' = st.ran
    /\ guards' = st.guards
    /\ sunk' = st.sunk

\* SessionState(session_id=sid) as the REPL creates it, with the sinks the
\* front-end installs and the prompt file's context limit
Init ==
    /\ session_id = 0
    /\ facts = << >>
    /\ chatlog = << >>
    /\ attempts = << >>
    /\ last_output = ""
    /\ \E lim \in ConfigLimits :
         config = [auto_accept_commands |-> None, auto_round_limit |-> lim,
                   llm_provider |-> None]
    /\ selected_provider = None
    /\ pending_command = None
    /\ auto_accept_commands = FALSE
    /\ auto_rounds_remaining = None
    /\ pending_outputs = << >>
    /\ pending_chat = << >>
    /\ pending_chat_events = << >>
    /\ last_answer_streamed = FALSE
    /\ colors_enabled = TRUE
    /\ \E mode \in SinkModes :
         debugger_output_sink = mode /\ chat_output_sink = mode
    /\ max_context_chars = Some(MaxContextChars)
    /\ op = "init"
    /\ arg = ""
    /\ ret = << >>
    /\ calls = << >>
    /\ ran = << >>
    /\ guards = << >>
    /\ sunk = << >>
    /\ NoAgent
    /\ NoBackend
    /\ NoServices

(***************************************************************************)
(* core/state.py                                                           *)
(***************************************************************************)
\* int(raw) for the configured strings of the model: None when it raises
ParseInt(raw) ==
    CASE raw = "1"   -> Some(1)
      [] raw = "0"   -> Some(0)
      [] raw = "-1"  -> Some(-1)
      [] raw = "2"   -> Some(2)
      [] raw = "64"  -> Some(64)
      [] raw = " 3 " -> Some(3)
      [] OTHER       -> None

\* the limit one key of the config gives: None when the key is missing, its
\* value is no integer, or the integer is not above 0
KeyLimit(cfg, key) ==
    LET raw == IF key \in DOMAIN cfg THEN cfg[key] ELSE None
        limit == IF raw = None THEN None ELSE ParseInt(raw[1])
    IN  IF limit # None /\ limit[1] > 0 THEN limit ELSE None

resolve_auto_round_limit(cfg) ==
    CASE KeyLimit(cfg, "auto_round_limit") # None  -> KeyLimit(cfg, "auto_round_limit")[1]
      [] KeyLimit(cfg, "auto_rounds_limit") # None -> KeyLimit(cfg, "auto_rounds_limit")[1]
      [] OTHER                                     -> DEFAULT_AUTO_ROUND_LIMIT

\* values a limit key of the config takes: missing, or a string
RawLimits == { None } \cup { Some(raw) : raw \in { "1", "0", "-1", "2", "64", " 3 ", "1.5", "", "x" } }

(***************************************************************************)
(* core/orchestrator.py: the pieces of a turn.                             *)
(***************************************************************************)
UserLine(text) == [k |-> "user", s |-> "User: " \o text, cmd |-> None]
AssistantLine(answer) ==
    [k |-> "assistant", s |-> "Assistant: " \o Strip(RawAnswer(answer)), cmd |-> FirstCmd(answer)]
ExecutedLine(cmd, out) ==
    [k |-> "executed", s |-> "Assistant: (executed) " \o cmd \o "\n" \o out, cmd |-> Some(cmd)]

LineTexts(log) == [i \in 1..Len(log) |-> log[i].s]

\* len("\n".join(list(chatlog) + ["User: " + text]))
TranscriptLen(log, text) == JoinedLen(Append(LineTexts(log), "User: " \o text))

MAX_CONTEXT_CHARS(st) ==
    IF st.max_context_chars # None THEN st.max_context_chars[1] ELSE DEFAULT_MAX_CONTEXT_CHARS

\* a guard that already triggers at the limit
OverflowTriggered_atlimit(len, max) == len >= max

\* orchestrator.py:230
OverflowTriggered(len, max) == len > max

\* truthiness of state.pending_command (orchestrator.py:123, 130)
Truthy(p) == p # None /\ p # Some("")

\* (reply or "").strip().lower() (orchestrator.py:133)
Choice(reply) == Lower(Strip(reply))

\* orchestrator.py:134
ChoiceYes(choice) == choice \in { "y", "yes" }

\* an auto-yes test that also takes the blank reply
ChoiceAuto_blank(choice) == choice \in { "a", "auto", "auto yes", "auto-yes", "" }

\* orchestrator.py:136
ChoiceAuto(choice) == choice \in { "a", "auto", "auto yes", "auto-yes" }

\* orchestrator.py:232
ChoiceSummarize(choice) == choice \in { "summarize and new session", "summarise and new session" }

\* a fresh-session test that also takes the blank text
ChoiceNewSession_blank(choice) == choice \in { "new session", "start new session", "new", "" }

\* orchestrator.py:253
ChoiceNewSession(choice) == choice \in { "new session", "start new session", "new" }

\* state.selected_provider or state.config.get("llm_provider")
ProviderOf(st) ==
    IF st.selected_provider # None /\ st.selected_provider[1] # "" THEN st.selected_provider
    ELSE st.config.llm_provider

\* a chat emission that loses the text when the sink raises
_emit_chat_lost(st, text, color) ==
    IF text = "" THEN [st |-> [st EXCEPT !.last_answer_streamed = FALSE], ok |-> FALSE]
    ELSE
      LET payload ==
            IF color # "" /\ st.colors_enabled /\ strip_ansi(text) = text
            THEN color_text(text, color, FALSE, st.colors_enabled)
            ELSE text
      IN  IF st.chat_output_sink = "ok"
          THEN [st |-> [st EXCEPT !.sunk = Append(@, [sink |-> "chat", chunk |-> payload]),
                                  !.last_answer_streamed = TRUE],
                ok |-> TRUE]
          ELSE IF st.chat_output_sink = "raises"
          THEN [st |-> [st EXCEPT !.last_answer_streamed = FALSE], ok |-> FALSE]
          ELSE [st |-> [st EXCEPT !.pending_chat = Append(@, payload),
                                  !.last_answer_streamed = TRUE],
                ok |-> TRUE]

\* _emit_chat: [st, ok]
_emit_chat(st, text, color) ==
    IF text = "" THEN [st |-> [st EXCEPT !.last_answer_streamed = FALSE], ok |-> FALSE]
    ELSE
      LET payload ==
            IF color # "" /\ st.colors_enabled /\ strip_ansi(text) = text
            THEN color_text(text, color, FALSE, st.colors_enabled)
            ELSE text
      IN  IF st.chat_output_sink = "ok"
          THEN [st |-> [st EXCEPT !.sunk = Append(@, [sink |-> "chat", chunk |-> payload]),
                                  !.last_answer_streamed = TRUE],
                ok |-> TRUE]
          ELSE [st |-> [st EXCEPT !.pending_chat = Append(@, payload),
                                  !.last_answer_streamed = TRUE],
                ok |-> TRUE]

\* an execution that also buffers what the sink took
_execute_once_both(st, exec_cmd, returned) ==
    LET out == _execute_and_format(exec_cmd, returned, st.colors_enabled)
        streamed == st.debugger_output_sink = "ok"
    IN  [st |-> [st EXCEPT
                   !.ran = Append(@, exec_cmd),
                   !.last_output = out,
                   !.attempts = Append(@, [cmd |-> exec_cmd,
                                           output_snippet |-> Prefix(out, SNIPPET_CHARS)]),
                   !.chatlog = Append(@, ExecutedLine(exec_cmd, out)),
                   !.sunk = IF streamed THEN Append(@, [sink |-> "debugger", chunk |-> out])
                            ELSE @,
                   !.pending_outputs = Append(@, out),
                   !.facts = Append(@, [k |-> "O", s |-> "O: " \o FirstLine(out)])],
         out |-> out, streamed |-> streamed]

\* _execute_once, given what backend.run_command returned: [st, out, streamed]
_execute_once(st, exec_cmd, returned) ==
    LET out == _execute_and_format(exec_cmd, returned, st.colors_enabled)
        streamed == st.debugger_output_sink = "ok"
        s1 == [st EXCEPT
                 !.ran = Append(@, exec_cmd),
                 !.last_output = out,
                 !.attempts = Append(@, [cmd |-> exec_cmd,
                                         output_snippet |-> Prefix(out, SNIPPET_CHARS)]),
                 !.chatlog = Append(@, ExecutedLine(exec_cmd, out)),
                 !.sunk = IF streamed THEN Append(@, [sink |-> "debugger", chunk |-> out])
                          ELSE @]
        s2 == IF out # ""
              THEN [s1 EXCEPT
                      !.pending_outputs = IF streamed THEN @ ELSE Append(@, out),
                      !.facts = Append(@, [k |-> "O", s |-> "O: " \o FirstLine(out)])]
              ELSE s1
    IN  [st |-> s2, out |-> out, streamed |-> streamed]

\* _format_confirmation_prompt: [st, ret]
_format_confirmation_prompt(st, answer, command) ==
    LET explanation == _extract_explanation(answer)
        label == BackendName
        parts == (IF explanation # ""
                  THEN << color_text(explanation, "green", FALSE, st.colors_enabled) >>
                  ELSE << >>)
                 \o << "Proposed debugger command:",
                       _prefix_dbg_echo(command, label, st.colors_enabled),
                       RUN_IT >>
        proposal == [type |-> "command_proposal", command |-> command, label |-> label,
                     explanation |-> IF explanation # "" THEN Some(strip_ansi(explanation))
                                     ELSE None]
    IN  [st |-> [st EXCEPT !.pending_chat_events = Append(@, proposal)], ret |-> parts]

\* a rotation that keeps the attempts
RotateAndClear_keeps(st) ==
    [st EXCEPT !.session_id = @ + 1,
               !.chatlog = << >>,
               !.facts = << >>,
               !.last_output = ""]

\* the session fields both "new session" branches reset (orchestrator.py:238-245, 254-262)
RotateAndClear(st) ==
    [st EXCEPT !.session_id = @ + 1,
               !.chatlog = << >>,
               !.attempts = << >>,
               !.facts = << >>,
               !.last_output = ""]

\* summary(): the lines of the local session summary
summary(st) ==
    LET recent == SelectSeq(LastN(st.attempts, RECENT_ATTEMPTS), LAMBDA a : a.cmd # "")
        attempts_txt == [i \in 1..Len(recent) |->
                           "  - " \o recent[i].cmd \o ": " \o Prefix(recent[i].output_snippet, 120)]
        qa == SelectSeq(st.facts, LAMBDA f : f.k \in { "Q", "A" })
        qa_txt == [i \in 1..Len(LastN(qa, 6)) |-> "  " \o LastN(qa, 6)[i].s]
    IN  << "Session " \o UuidStr(st.session_id),
           "Debugger: " \o BackendName,
           "Provider: " \o (IF st.selected_provider = None THEN "None"
                            ELSE st.selected_provider[1]) >>
        \o (IF Len(attempts_txt) > 0 THEN << "Recent commands:" >> \o attempts_txt ELSE << >>)
        \o (IF st.last_output # "" THEN << "Last output:", "  " \o IndentLines(st.last_output) >>
            ELSE << >>)
        \o (IF Len(qa_txt) > 0 THEN << "Recent chat:" >> \o qa_txt ELSE << >>)

\* the provider call of _llm_summarize_session (orchestrator.py:588-611): the
\* last five attempts and the last forty chat lines go into the prompt
SummarizeCall(st, outcome) ==
    [kind |-> "summarize",
     question |-> "Summary:",
     attempts |-> LastN(st.attempts, RECENT_ATTEMPTS),
     chat |-> LastN(LineTexts(st.chatlog), SUMMARY_CHAT_TAIL),
     outcome |-> outcome]

\* a summarisation that never asks the provider
_llm_summarize_session_local(st, outcome) == [st |-> st, lines |-> summary(st)]

\* _llm_summarize_session, given what the provider call does: [st, lines]
_llm_summarize_session(st, outcome) ==
    IF ProviderOf(st) # None
    THEN LET s1 == [st EXCEPT !.calls = Append(@, SummarizeCall(st, outcome))]
         IN  IF outcome.raised THEN [st |-> s1, lines |-> summary(s1)]
             ELSE [st |-> s1, lines |-> outcome.lines]
    ELSE [st |-> st, lines |-> summary(st)]

\* a returned string as the segments "\n".join puts together: "" is no segment
Seg(s) == IF s = "" THEN << >> ELSE << s >>

PROVIDER_ERROR == "LLM provider error: boom"

\* a provider call: the prompt it was given (its kind, its question and the
\* session context put into it) and what the call did
TurnCall(st, question, outcome) ==
    [kind |-> "turn",
     question |-> Strip(question),
     attempts |-> LastN(st.attempts, RECENT_ATTEMPTS),
     chat |-> LineTexts(st.chatlog),
     outcome |-> outcome]

\* _llm_turn once the overflow guard has triggered (orchestrator.py:231-268),
\* for each thing the summarisation call can do: set of [st, ret]
OverflowBranch(st, text) ==
    LET choice == Lower(text)
    IN  IF ChoiceSummarize(choice)
        THEN { LET sm == _llm_summarize_session(st, o)
                   rot == RotateAndClear(sm.st)
                   seeded == IF sm.lines # << >>
                             THEN [rot EXCEPT !.facts =
                                     Append(@, [k |-> "Summary",
                                                s |-> "Summary: "
                                                      \o Prefix(Head(sm.lines), SNIPPET_CHARS)])]
                             ELSE rot
               IN  [st |-> seeded,
                    ret |-> << "Started a new session: " \o UuidStr(seeded.session_id),
                               "Here is a brief summary of the previous session for reference:" >>
                            \o (IF sm.lines = << >> THEN << "" >> ELSE sm.lines)]
               : o \in SummaryOutcomes }
        ELSE IF ChoiceNewSession(choice)
        THEN LET rot == RotateAndClear(st)
             IN  { [st |-> rot,
                    ret |-> << "Started a fresh session: " \o UuidStr(rot.session_id) >>] }
        ELSE { [st |-> st, ret |-> << OVERFLOW_PROMPT >>] }

\* a provider error that is also written to the chatlog
ProviderError_logged(st) ==
    LET line == [k |-> "assistant", s |-> "Assistant: " \o PROVIDER_ERROR, cmd |-> None]
        logged == [st EXCEPT !.chatlog = Append(@, line)]
    IN  [st |-> logged, ret |-> << color_text(PROVIDER_ERROR, "red", FALSE, st.colors_enabled) >>]

\* the except branch of _llm_turn (orchestrator.py:341-349): [st, ret]
ProviderError(st) ==
    IF st.auto_accept_commands
    THEN LET em == _emit_chat(st, PROVIDER_ERROR, "red")
         IN  IF em.ok /\ em.st.last_answer_streamed
             THEN [st |-> em.st, ret |-> << >>]
             ELSE [st |-> em.st,
                   ret |-> << color_text(PROVIDER_ERROR, "red", FALSE, st.colors_enabled) >>]
    ELSE [st |-> st, ret |-> << color_text(PROVIDER_ERROR, "red", FALSE, st.colors_enabled) >>]

\* an exchange that records the user line twice
RecordExchange_twice(st, question, answer) ==
    [st EXCEPT
       !.chatlog = @ \o << UserLine(Strip(question)), UserLine(Strip(question)),
                           AssistantLine(answer) >>,
       !.facts = @ \o << [k |-> "Q", s |-> "Q: " \o Strip(question)],
                         [k |-> "A", s |-> "A: " \o Strip(FirstLine(RawAnswer(answer)))] >>]

\* orchestrator.py:314-319
RecordExchange(st, question, answer) ==
    [st EXCEPT
       !.chatlog = @ \o << UserLine(Strip(question)), AssistantLine(answer) >>,
       !.facts = @ \o << [k |-> "Q", s |-> "Q: " \o Strip(question)],
                         [k |-> "A", s |-> "A: " \o Strip(FirstLine(RawAnswer(answer)))] >>]

\* a gate that lets every proposed command through
RunsUnconfirmed_open(auto_mode) == TRUE

\* orchestrator.py:331: a proposed command runs without confirmation
RunsUnconfirmed(auto_mode) == auto_mode

RECURSIVE _llm_turn(_, _)
RECURSIVE _execute_with_followup(_, _, _)

\* set of [st, ret], one for each thing the backend and the provider can do
_execute_with_followup(st, command, preface) ==
    LET segs0 == IF preface # "" /\ ~st.last_answer_streamed
                 THEN << color_text(preface, "green", FALSE, st.colors_enabled) >>
                 ELSE << >>
    IN  UNION {
          LET e == _execute_once(st, command, returned)
              segs1 == segs0 \o (IF e.out # "" /\ ~e.streamed THEN << e.out >> ELSE << >>)
          IN  { [st |-> r.st,
                 ret |-> segs1 \o (IF r.ret # << >> /\ ~r.st.last_answer_streamed
                                   THEN r.ret ELSE << >>)]
                : r \in _llm_turn(e.st, _build_followup_prompt(command, e.out)) }
          : returned \in BackendOutputs }

\* set of [st, ret], one for each thing the provider and the backend can do
_llm_turn(st0, question) ==
    LET text == Strip(question)
        len == TranscriptLen(st0.chatlog, text)
        hit == OverflowTriggered(len, MAX_CONTEXT_CHARS(st0))
        st == [st0 EXCEPT !.last_answer_streamed = FALSE,
                          !.guards = Append(@, [len |-> len, hit |-> hit,
                                                calls_before |-> Len(st0.calls)])]
    IN  IF hit THEN OverflowBranch(st, text)
        ELSE IF ProviderOf(st) = None THEN { [st |-> st, ret |-> << READY >>] }
        ELSE UNION {
          LET called == [st EXCEPT !.calls = Append(@, TurnCall(st, question, po))]
          IN  IF po.raised THEN { ProviderError(called) }
              ELSE
                LET answer == po.answer
                    s2 == RecordExchange(called, question, answer)
                    explanation == _extract_explanation(answer)
                    display_text == Strip(IF explanation # "" THEN explanation
                                          ELSE RawAnswer(answer))
                    auto_mode == s2.auto_accept_commands
                    em == IF auto_mode /\ display_text # ""
                          THEN _emit_chat(s2, display_text, "green")
                          ELSE [st |-> s2, ok |-> FALSE]
                    match == FirstCmd(answer)
                IN  IF match # None
                    THEN IF RunsUnconfirmed(auto_mode)
                         THEN _execute_with_followup(em.st, match[1], display_text)
                         ELSE { _format_confirmation_prompt(
                                  [em.st EXCEPT !.pending_command = match], answer, match[1]) }
                    ELSE IF auto_mode /\ em.ok /\ em.st.last_answer_streamed
                         THEN { [st |-> em.st, ret |-> << >>] }
                         ELSE { [st |-> em.st,
                                 ret |-> Seg(color_text(RawAnswer(answer), "green", FALSE,
                                                        em.st.colors_enabled))] }
          : po \in ProviderOutcomes }

\* a confirmation that leaves the stored command in place
TakePending_kept(st) == st

\* orchestrator.py:129
TakePending(st) == [st EXCEPT !.pending_command = None]

\* set of [st, ret]
_handle_command_confirmation(st, reply) ==
    LET cmd == st.pending_command
        s1 == TakePending(st)
        choice == Choice(reply)
    IN  IF ~Truthy(cmd) THEN _llm_turn(s1, reply)
        ELSE IF ChoiceYes(choice) THEN _execute_with_followup(s1, cmd[1], "")
        ELSE IF ChoiceAuto(choice)
        THEN LET s2 == [s1 EXCEPT !.auto_accept_commands = TRUE,
                                  !.config.auto_accept_commands = Some("true")]
             IN  { [st |-> r.st, ret |-> << AUTO_PREFIX >> \o r.ret]
                   : r \in _execute_with_followup(s2, cmd[1], "") }
        ELSE { [st |-> s1, ret |-> << SKIPPED >>] }

\* set of [st, ret]
ask(st, question) ==
    LET text == Strip(question)
    IN  IF Truthy(st.pending_command)
        THEN _handle_command_confirmation(st, text)
        ELSE _llm_turn(st, text)

(***************************************************************************)
(* Actions.                                                                *)
(***************************************************************************)
\* the turns the model explores
Accepted(text) ==
    \/ Len(chatlog) <= MaxChatLines
    \/ OverflowTriggered(TranscriptLen(chatlog, Strip(text)), MAX_CONTEXT_CHARS(Pack))

\* the front-end hands a line to orchestrator.ask (standalone.py:993,
\* session_manager.py:156-159).  ask() only appends to the pending buffers and
\* never reads them, and run_chat empties them after every ask()
\* (session_manager.py:167-182), so a turn starts with the buffers empty.
Ask(text) ==
    /\ session_id < MaxSessions
    /\ pending_outputs = << >> /\ pending_chat = << >> /\ pending_chat_events = << >>
    /\ Accepted(text)
    /\ \E r \in ask(Pack, text) :
         /\ Install(r.st)
         /\ ret' = r.ret
    /\ arg' = text
    /\ op' = "ask"
    /\ UNCHANGED << agentVars, backendVars, serviceVars >>

\* the record of an operation that is not an ask(): no text, no provider
\* call, no command, no guard, nothing pushed to a sink
NoCalls ==
    /\ arg' = ""
    /\ calls' = << >>
    /\ ran' = << >>
    /\ guards' = << >>
    /\ sunk' = << >>

\* /auto on (standalone.py:873-884)
AutoOn ==
    /\ ~auto_accept_commands
    /\ auto_accept_commands' = TRUE
    /\ config' = [config EXCEPT !.auto_accept_commands = Some("true")]
    /\ auto_rounds_remaining' = Some(resolve_auto_round_limit(config'))
    /\ op' = "auto_on"
    /\ NoCalls
    /\ UNCHANGED << session_id, facts, chatlog, attempts, last_output, selected_provider,
                    pending_command, pending_outputs, pending_chat, pending_chat_events,
                    last_answer_streamed, colors_enabled, debugger_output_sink,
                    chat_output_sink, max_context_chars, ret >>
    /\ UNCHANGED << agentVars, backendVars, serviceVars >>

\* an /auto off that leaves the round budget as it is
AutoOff_keeps ==
    /\ auto_accept_commands
    /\ auto_accept_commands' = FALSE
    /\ config' = [config EXCEPT !.auto_accept_commands = None]
    /\ op' = "auto_off"
    /\ NoCalls
    /\ UNCHANGED << session_id, facts, chatlog, attempts, last_output, selected_provider,
                    pending_command, pending_outputs, pending_chat, pending_chat_events,
                    last_answer_streamed, colors_enabled, debugger_output_sink,
                    chat_output_sink, max_context_chars, ret, auto_rounds_remaining >>
    /\ UNCHANGED << agentVars, backendVars, serviceVars >>

\* /auto off (standalone.py:885-893)
AutoOff ==
    /\ auto_accept_commands
    /\ auto_accept_commands' = FALSE
    /\ config' = [config EXCEPT !.auto_accept_commands = None]
    /\ auto_rounds_remaining' = None
    /\ op' = "auto_off"
    /\ NoCalls
    /\ UNCHANGED << session_id, facts, chatlog, attempts, last_output, selected_provider,
                    pending_command, pending_outputs, pending_chat, pending_chat_events,
                    last_answer_streamed, colors_enabled, debugger_output_sink,
                    chat_output_sink, max_context_chars, ret >>
    /\ UNCHANGED << agentVars, backendVars, serviceVars >>

\* /llm use <name> (standalone.py:623-629)
LlmUse ==
    /\ selected_provider = None
    /\ selected_provider' = Some(ProviderName)
    /\ config' = [config EXCEPT !.llm_provider = Some(ProviderName)]
    /\ op' = "llm_use"
    /\ NoCalls
    /\ UNCHANGED << session_id, facts, chatlog, attempts, last_output, pending_command,
                    auto_accept_commands, auto_rounds_remaining, pending_outputs,
                    pending_chat, pending_chat_events, last_answer_streamed, colors_enabled,
                    debugger_output_sink, chat_output_sink, max_context_chars, ret >>
    /\ UNCHANGED << agentVars, backendVars, serviceVars >>

\* the front-end takes what ask() left in the pending buffers
\* (session_manager.py:167-182)
DrainPending ==
    /\ Len(pending_outputs) + Len(pending_chat) + Len(pending_chat_events) > 0
    /\ pending_chat' = << >>
    /\ pending_chat_events' = << >>
    /\ pending_outputs' = << >>
    /\ op' = "drain"
    /\ NoCalls
    /\ UNCHANGED << session_id, facts, chatlog, attempts, last_output, config,
                    selected_provider, pending_command, auto_accept_commands,
                    auto_rounds_remaining, last_answer_streamed, colors_enabled,
                    debugger_output_sink, chat_output_sink, max_context_chars, ret >>
    /\ UNCHANGED << agentVars, backendVars, serviceVars >>

Next ==
    \/ \E text \in UserTexts : Ask(text)
    \/ DrainPending
    \/ AutoOn
    \/ AutoOff
    \/ LlmUse

Spec == Init /\ [][Next]_vars

(***************************************************************************)
(* dbgagent/runner.py: the autonomous agent loop.                          *)
(***************************************************************************)
\* the debuggers a request of the model names; delve loads the program at
\* initialisation and _create_backend refuses it without a program
AgentDebuggers == { "gdb", "lldb", "delve" }
Programs == { None, Some("./a.out") }
Corefiles == { None, Some("core") }

AgentRequests ==
    { r \in [ debugger : AgentDebuggers, program : Programs, corefile : Corefiles,
              max_steps : 1..(MaxSteps + 1) ] :
        r.debugger = "delve" => r.program # None }

\* what the provider returns to the agent: a reply of the orchestrator's
\* kinds, or an empty string
AgentAnswers == Answers \cup { << >> }
AgentOutcomes == { [raised |-> FALSE, answer |-> a] : a \in AgentAnswers }
                   \cup { [raised |-> TRUE, answer |-> << >>] }

\* what backend.run_command returns to the agent
AgentOutputs == BackendOutputs \cup { "" }

\* the facts DebugAgentRunner.__init__ seeds
SeedFacts(req) ==
    (IF req.program # None THEN << "Program path: " \o req.program[1] >> ELSE << >>)
    \o (IF req.corefile # None THEN << "Corefile: " \o req.corefile[1] >> ELSE << >>)

\* the commands _prepare_debugger sends before the first prompt
PrepareCommands(req) ==
    CASE req.debugger = "gdb" ->
           (IF req.program # None THEN << "file " \o req.program[1] >> ELSE << >>)
           \o (IF req.corefile # None THEN << "core-file " \o req.corefile[1] >> ELSE << >>)
      [] req.debugger = "lldb" ->
           IF req.program # None /\ req.corefile # None
           THEN << "target create " \o req.program[1] \o " --core " \o req.corefile[1] >>
           ELSE IF req.corefile # None
           THEN << "target create --core " \o req.corefile[1] >>
           ELSE IF req.program # None
           THEN << "target create " \o req.program[1] >>
           ELSE << >>
      [] OTHER -> << >>

\* AGENT_PROMPT_CONFIG["max_steps"], which is 16: the model scales it to
\* the bound MaxSteps
PromptMaxSteps == MaxSteps

\* _auto_loop's max_steps: int(prompt_config.get("max_steps",
\* request.max_steps)), where prompt_config is a copy of AGENT_PROMPT_CONFIG
\* and so always has the key
LoopMaxSteps(req) == PromptMaxSteps

\* an extraction that takes the whole reply as the command when it finds no tag
_extract_cmd_whole(answer) ==
    IF FirstCmd(answer) # None THEN FirstCmd(answer) ELSE Some(Strip(RawAnswer(answer)))

\* DebugAgentRunner._extract_cmd on the stripped reply
_extract_cmd(answer) == FirstCmd(answer)

\* the AgentState fields as one value
AgentState == [ attempts |-> attempts, chatlog |-> chatlog, facts |-> facts,
                last_output |-> last_output ]

_record_execution(ast, cmd, output) ==
    LET clean_output == strip_ansi(output)
        first_line == IF clean_output # "" THEN FirstLine(clean_output) ELSE "(no output)"
    IN  [ ast EXCEPT
            !.attempts = Append(@, [cmd |-> cmd,
                                    output_snippet |-> Prefix(clean_output, SNIPPET_CHARS)]),
            !.last_output = clean_output,
            !.facts = Append(@, "Executed '" \o cmd \o "': " \o first_line),
            !.chatlog = Append(@, ExecutedLine(cmd, clean_output)) ]

RECURSIVE RecordAll(_, _, _)
\* for cmd in commands: out = backend.run_command(cmd); _record_execution(cmd, out)
RecordAll(ast, cmds, outs) ==
    IF cmds = << >> THEN ast
    ELSE RecordAll(_record_execution(ast, Head(cmds), Head(outs)), Tail(cmds), Tail(outs))

FALLBACK_REPORT ==
    "Final Report"
    \o "\n\n" \o "Analysis Summary:\n- Reached max iterations without definitive conclusion."
    \o "\n\n" \o "Findings:\n- Review executed commands and captured outputs above for clues."
    \o "\n\n" \o "Suggested Fixes:\n- Collect additional data or adjust dbgagent max-steps to continue."
    \o "\n\n" \o "Next Steps:\n- Provide more context or inspect the latest output manually."

\* a loop that does not log the reply
Said_silent(ast, answer) == ast

\* self.state.chatlog.append(f"Assistant: {answer_clean}")
Said(ast, answer) == [ast EXCEPT !.chatlog = Append(@, AssistantLine(answer))]

InstallAgent(ast) ==
    /\ attempts' = ast.attempts
    /\ chatlog' = ast.chatlog
    /\ facts' = ast.facts
    /\ last_output' = ast.last_output

\* the SessionState fields AgentState does not have
orchestratorOnly ==
    << session_id, config, selected_provider, pending_command, auto_accept_commands,
       auto_rounds_remaining, pending_outputs, pending_chat, pending_chat_events,
       last_answer_streamed, colors_enabled, debugger_output_sink, chat_output_sink,
       max_context_chars >>

\* DebugAgentRunner(request), before run()
AgentInit ==
    /\ \E req \in AgentRequests :
         /\ request = req
         /\ facts = SeedFacts(req)
    /\ agent_pc = "created"
    /\ step = 0
    /\ final_report = None
    /\ attempts = << >>
    /\ chatlog = << >>
    /\ last_output = ""
    /\ session_id = 0
    /\ config = [auto_accept_commands |-> None, auto_round_limit |-> None,
                 llm_provider |-> None]
    /\ selected_provider = None
    /\ pending_command = None
    /\ auto_accept_commands = FALSE
    /\ auto_rounds_remaining = None
    /\ pending_outputs = << >>
    /\ pending_chat = << >>
    /\ pending_chat_events = << >>
    /\ last_answer_streamed = FALSE
    /\ colors_enabled = FALSE
    /\ debugger_output_sink = "none"
    /\ chat_output_sink = "none"
    /\ max_context_chars = None
    /\ op = "init"
    /\ arg = ""
    /\ ret = << >>
    /\ calls = << >>
    /\ ran = << >>
    /\ guards = << >>
    /\ sunk = << >>
    /\ NoBackend
    /\ NoServices

\* run() up to the loop: _create_backend records the backend's name, then
\* _prepare_debugger sends and records the setup commands
PrepareDebugger ==
    /\ agent_pc = "created"
    /\ LET cmds == PrepareCommands(request)
           named == [AgentState EXCEPT
                       !.facts = Append(@, "Debugger backend: " \o request.debugger)]
       IN  /\ \E outs \in [1..Len(cmds) -> AgentOutputs] :
                InstallAgent(RecordAll(named, cmds, outs))
           /\ ran' = cmds
    /\ agent_pc' = "loop"
    /\ step' = 1
    /\ op' = "prepare"
    /\ arg' = ""
    /\ calls' = << >>
    /\ guards' = << >>
    /\ sunk' = << >>
    /\ UNCHANGED << request, final_report, ret, orchestratorOnly, backendVars, serviceVars >>

\* one pass of the for statement of _auto_loop
AutoLoopStep(outcome) ==
    /\ agent_pc = "loop"
    /\ step <= LoopMaxSteps(request)
    /\ calls' = << [kind |-> "agent", outcome |-> outcome] >>
    /\ IF outcome.raised
       THEN /\ agent_pc' = "raised"
            /\ ran' = << >>
            /\ UNCHANGED << attempts, chatlog, facts, last_output, step, final_report >>
       ELSE LET answer_clean == Strip(RawAnswer(outcome.answer))
                said == Said(AgentState, outcome.answer)
                cmd == _extract_cmd(outcome.answer)
            IN  IF Truthy(cmd)
                THEN /\ \E out \in AgentOutputs :
                          InstallAgent(_record_execution(said, cmd[1], out))
                     /\ ran' = << cmd[1] >>
                     /\ step' = step + 1
                     /\ UNCHANGED << agent_pc, final_report >>
                ELSE IF answer_clean = ""
                THEN /\ InstallAgent(said)
                     /\ ran' = << >>
                     /\ step' = step + 1
                     /\ UNCHANGED << agent_pc, final_report >>
                ELSE /\ InstallAgent(said)
                     /\ ran' = << >>
                     /\ final_report' = Some(answer_clean)
                     /\ agent_pc' = "done"
                     /\ UNCHANGED step
    /\ op' = "step"
    /\ arg' = ""
    /\ guards' = << >>
    /\ sunk' = << >>
    /\ UNCHANGED << request, ret, orchestratorOnly, backendVars, serviceVars >>

\* the for statement ran out of steps
FallbackReport ==
    /\ agent_pc = "loop"
    /\ step > LoopMaxSteps(request)
    /\ final_report' = Some(FALLBACK_REPORT)
    /\ agent_pc' = "done"
    /\ op' = "fallback"
    /\ NoCalls
    /\ UNCHANGED << request, step, attempts, chatlog, facts, last_output, ret,
                    orchestratorOnly, backendVars, serviceVars >>

AgentNext ==
    \/ PrepareDebugger
    \/ \E outcome \in AgentOutcomes : AutoLoopStep(outcome)
    \/ FallbackReport

AgentSpec == AgentInit /\ [][AgentNext]_vars

(***************************************************************************)
(* The program as a whole: an interactive session driven through           *)
(* orchestrator.ask, or an agent run.                                      *)
(***************************************************************************)
ProgramInit == Init \/ AgentInit

ProgramNext ==
    \/ agent_pc = "off" /\ Next
    \/ agent_pc # "off" /\ AgentNext

ProgramSpec == ProgramInit /\ [][ProgramNext]_vars

(***************************************************************************)
(* backends: gdb_subprocess.py, delve_subprocess.py, radare2_subprocess.py, *)
(* lldb_subprocess.py, java_jdb.py.                                        *)
(***************************************************************************)
Backends == { "gdb", "delve", "radare2", "lldb", "jdb" }

\* _EXIT_COMMANDS of gdb, delve and radare2; the quit branch of jdb
EXIT_COMMANDS == { "quit", "exit", "q" }

\* the texts handed to run_command
CommandTexts == { "bt", "Q", "bt; q; up", "up;bt", "" }

\* the stripped, non-empty pieces of the text between newlines and ";"
_split_commands(text) ==
    CASE text = "bt"        -> << "bt" >>
      [] text = "Q"         -> << "Q" >>
      [] text = "bt; q; up" -> << "bt", "q", "up" >>
      [] text = "up;bt"     -> << "up", "bt" >>
      [] OTHER              -> << >>

\* what the child prints before its next prompt
PtyOutputs == { "#0 main () at a.c:3", "" }

\* str(e) of the exceptions of the model
TIMEOUT_TEXT == "Timeout exceeded."
EOF_TEXT == "End Of File (EOF)."
ERROR_TEXT == "[Errno 5] Input/output error"
DIED_TEXT == "Process terminated unexpectedly"
NOT_RUNNING_TEXT == "LLDB subprocess is not running"
InitDetail(o) ==
    IF o = "spawn" THEN "The command was not found or was not executable"
    ELSE TIMEOUT_TEXT

Marker(name, kind, part, detail) ==
    "[" \o name \o " " \o kind \o "] " \o part \o ": " \o detail
RESTARTED(name) == "[" \o name \o "] session restarted; ready for commands"
ALREADY_CLOSED(name) == "[" \o name \o " closed] session already terminated"
RESTART_FAILED(detail) == "[radare2 restart failed] " \o detail
LLDB_HINT ==
    "[copilot] Observed consecutive empty/timeout outputs from LLDB subprocess."
EMPTY_THRESHOLD == 2

\* the backend at the start of a run_command, with what the call collects:
\* the outputs, the lines sent to the child, the session starts attempted
BackendState ==
    [ child |-> child, timeout_reported |-> timeout_reported,
      empty_count |-> empty_count, suggested_once |-> suggested_once,
      chunks |-> << >>, sent |-> << >>, io |-> << >>, inits |-> << >>,
      raised |-> FALSE ]

\* outputs.append(chunk), with the filter of the final join
Emit(x, chunk) == IF chunk = "" THEN x ELSE [x EXCEPT !.chunks = Append(@, chunk)]

\* a line written to the child, with how the exchange ended
Sent(x, line, how) ==
    [x EXCEPT !.sent = Append(@, line),
              !.io = Append(@, [kind |-> "send", part |-> line, outcome |-> how])]

\* child.sendline(part) and child.expect(prompt) on a handle
SendOutcomes(ch) ==
    IF ch = "alive"
    THEN { [kind |-> "ok", out |-> o] : o \in PtyOutputs }
         \cup { [kind |-> k, out |-> ""] : k \in { "timeout", "eof", "error" } }
    ELSE { [kind |-> k, out |-> ""] : k \in { "eof", "error" } }

\* how initialize_session ends: it returns, the spawn raises (the handle
\* stays None), or the first prompt never comes (the handle is set)
InitOutcomes(name) ==
    IF name = "radare2" THEN { "ok", "spawn" } ELSE { "ok", "spawn", "prompt" }

ChildAfterInit(o) ==
    CASE o = "ok"    -> "alive"
      [] o = "spawn" -> "none"
      [] OTHER       -> "dead"

\* _handle_exit_command (gdb), _handle_exit (delve, radare2)
_handle_exit(name, x, part) ==
    IF x.child = "none" THEN { Emit(x, ALREADY_CLOSED(name)) }
    ELSE { Emit([Sent(x, part, "exit") EXCEPT !.child = ChildAfterInit(o),
                                      !.inits = Append(@, o)],
                IF o = "ok" THEN RESTARTED(name)
                ELSE Marker(name, "closed", part, InitDetail(o)))
           : o \in InitOutcomes(name) }

RECURSIVE gdb_parts(_, _)
\* the for statement of GdbSubprocessBackend.run_command
gdb_parts(x, parts) ==
    IF parts = << >> THEN { x }
    ELSE LET part == Head(parts)
             rest == Tail(parts)
         IN  IF Lower(part) \in EXIT_COMMANDS THEN _handle_exit("gdb", x, part)
             ELSE UNION {
                    CASE o.kind = "ok" -> gdb_parts(Emit(Sent(x, part, o.kind), o.out), rest)
                      [] o.kind = "timeout" ->
                           gdb_parts(Emit(Sent(x, part, o.kind),
                                          Marker("gdb", "timeout", part, TIMEOUT_TEXT)), rest)
                      [] o.kind = "eof" ->
                           { Emit([Sent(x, part, o.kind) EXCEPT !.child = "dead"],
                                  Marker("gdb", "eof", part, EOF_TEXT)) }
                      [] OTHER ->
                           gdb_parts(Emit(Sent(x, part, o.kind),
                                          Marker("gdb", "error", part, ERROR_TEXT)), rest)
                    : o \in SendOutcomes(x.child) }

gdb_run_command(x, text) ==
    IF x.child = "none" THEN { [x EXCEPT !.raised = TRUE] }
    ELSE LET split == _split_commands(text)
             parts == IF split = << >> THEN << Strip(text) >> ELSE split
         IN  gdb_parts(x, parts)

RECURSIVE delve_parts(_, _)
\* the for statement of DelveSubprocessBackend.run_command
delve_parts(x, parts) ==
    IF parts = << >> THEN { x }
    ELSE LET part == Head(parts)
             rest == Tail(parts)
         IN  IF Lower(part) \in EXIT_COMMANDS THEN _handle_exit("delve", x, part)
             ELSE UNION {
                    CASE o.kind = "ok" -> delve_parts(Emit(Sent(x, part, o.kind), o.out), rest)
                      [] o.kind = "timeout" ->
                           delve_parts(Emit(Sent(x, part, o.kind),
                                            Marker("delve", "error", part, TIMEOUT_TEXT)), rest)
                      [] o.kind = "eof" ->
                           delve_parts(Emit([Sent(x, part, o.kind) EXCEPT !.child = "dead"],
                                            Marker("delve", "error", part, EOF_TEXT)), rest)
                      [] OTHER ->
                           delve_parts(Emit(Sent(x, part, o.kind),
                                            Marker("delve", "error", part, ERROR_TEXT)), rest)
                    : o \in SendOutcomes(x.child) }

delve_run_command(x, text) ==
    IF x.child = "none" THEN { [x EXCEPT !.raised = TRUE] }
    ELSE IF Strip(text) = "" THEN { x }
    ELSE delve_parts(x, _split_commands(Strip(text)))

\* self._r2.cmd(command): it answers, raises, or finds the process gone
ExecuteOutcomes ==
    { [kind |-> "ok", out |-> o] : o \in PtyOutputs }
    \cup { [kind |-> k, out |-> ""] : k \in { "error", "died" } }

RECURSIVE radare2_parts(_, _)
\* the for statement of Radare2SubprocessBackend.run_command
radare2_parts(x, parts) ==
    IF parts = << >> THEN { x }
    ELSE LET part == Head(parts)
             rest == Tail(parts)
         IN  IF Lower(part) \in EXIT_COMMANDS THEN _handle_exit("radare2", x, part)
             ELSE UNION {
                    CASE o.kind = "ok" -> radare2_parts(Emit(Sent(x, part, o.kind), o.out), rest)
                      [] o.kind = "error" ->
                           radare2_parts(Emit(Sent(x, part, o.kind),
                                              Marker("radare2", "error", part, ERROR_TEXT)), rest)
                      [] OTHER ->
                           LET told == Emit(Sent(x, part, o.kind),
                                            Marker("radare2", "error", part, DIED_TEXT))
                           IN  UNION {
                                 IF i = "ok"
                                 THEN radare2_parts([told EXCEPT !.child = "alive",
                                                                 !.inits = Append(@, i)], rest)
                                 ELSE { Emit([told EXCEPT !.child = "none",
                                                          !.inits = Append(@, i)],
                                             RESTART_FAILED(InitDetail(i))) }
                                 : i \in InitOutcomes("radare2") }
                    : o \in ExecuteOutcomes }

radare2_run_command(x, text) ==
    IF x.child = "none" THEN { [x EXCEPT !.raised = TRUE] }
    ELSE IF Strip(text) = "" THEN { x }
    ELSE radare2_parts(x, _split_commands(Strip(text)))

\* LldbSubprocessBackend._send_and_capture: the backend after it and the
\* text it returns, or the exception it lets through
lldb_send_and_capture(x, part) ==
    IF x.child = "none"
    THEN { [x |-> x, failed |-> TRUE, text |-> NOT_RUNNING_TEXT] }
    ELSE { CASE o.kind = "ok" -> [x |-> Sent(x, part, o.kind), failed |-> FALSE, text |-> o.out]
             [] o.kind = "timeout" ->
                  IF x.timeout_reported
                  THEN [x |-> Sent(x, part, o.kind), failed |-> FALSE, text |-> ""]
                  ELSE [x |-> [Sent(x, part, o.kind) EXCEPT !.timeout_reported = TRUE],
                        failed |-> FALSE,
                        text |-> Marker("lldb", "timeout", part, TIMEOUT_TEXT)]
             [] o.kind = "eof" ->
                  [x |-> [Sent(x, part, o.kind) EXCEPT !.child = "none"], failed |-> FALSE,
                   text |-> ""]
             [] OTHER -> [x |-> Sent(x, part, o.kind), failed |-> TRUE, text |-> ERROR_TEXT]
           : o \in IF part \in EXIT_COMMANDS /\ x.child = "alive"
                    THEN { [kind |-> k, out |-> ""] : k \in { "eof", "timeout", "error" } }
                    ELSE SendOutcomes(x.child) }

\* norm.startswith("[lldb timeout]")
IsLldbTimeout(text) ==
    \E p \in { "bt", "Q", "q", "up", "" } : text = Marker("lldb", "timeout", p, TIMEOUT_TEXT)

RECURSIVE lldb_parts(_, _)
\* the for statement of LldbSubprocessBackend.run_command
lldb_parts(x, parts) ==
    IF parts = << >> THEN { x }
    ELSE LET part == Head(parts)
             rest == Tail(parts)
         IN  UNION {
               IF r.failed
               THEN lldb_parts(Emit(r.x, Marker("lldb", "error", part, r.text)), rest)
               ELSE IF IsLldbTimeout(r.text) \/ r.text = ""
               THEN lldb_parts(Emit([r.x EXCEPT !.empty_count = @ + 1], r.text), rest)
               ELSE lldb_parts(Emit([r.x EXCEPT !.empty_count = 0], r.text), rest)
               : r \in lldb_send_and_capture(x, part) }

\* the reliability hint appended after the loop
lldb_hint(x) ==
    IF ~x.suggested_once /\ x.empty_count >= EMPTY_THRESHOLD
    THEN [x EXCEPT !.suggested_once = TRUE, !.chunks = Append(@, LLDB_HINT)]
    ELSE x

lldb_run_command(x, text) ==
    IF x.child = "none" THEN { [x EXCEPT !.raised = TRUE] }
    ELSE LET split == _split_commands(Strip(text))
             parts == IF split = << >> THEN << Strip(text) >> ELSE split
         IN  { lldb_hint(y) : y \in lldb_parts(x, parts) }

JDB_TERMINATED == "[jdb] session terminated"
JDB_EXITED == "[jdb] process exited"
JDB_PROMPT_TIMEOUT == "[jdb] timeout waiting for jdb prompt"
JDB_LAUNCH_FAILED == "[jdb] failed to launch jdb: " \o InitDetail("spawn")
JDB_SEND_FAILED == "[jdb] failed to send command: " \o ERROR_TEXT
JDB_WAIT_TIMEOUT(command) == "[jdb] timeout waiting for '" \o command \o "'"

\* the jdb command an alias stands for
jdb_alias(lower, cmd) == IF lower = "bt" THEN "where" ELSE cmd

\* JavaJdbBackend._ensure_session_started: the backend after it, with the
\* startup text collected as an output
jdb_ensure_session_started(x) ==
    IF x.child = "alive" THEN { x }
    ELSE { [x EXCEPT !.child = "none", !.inits = Append(@, "spawn")],
           [x EXCEPT !.child = "alive", !.inits = Append(@, "ok")],
           Emit([x EXCEPT !.child = "alive", !.inits = Append(@, "prompt")],
                JDB_PROMPT_TIMEOUT),
           [x EXCEPT !.child = "none", !.inits = Append(@, "eof")] }

\* JavaJdbBackend._send_and_capture
jdb_send_and_capture(x, command) ==
    UNION {
      IF y.child # "alive"
      THEN { Emit(y, IF Last_(y.inits) = "spawn" THEN JDB_LAUNCH_FAILED ELSE JDB_EXITED) }
      ELSE { CASE o.kind = "ok" -> Emit(Sent(y, command, o.kind), o.out)
               [] o.kind = "timeout" -> Emit(Sent(y, command, o.kind), JDB_WAIT_TIMEOUT(command))
               [] o.kind = "eof" ->
                    IF y.chunks = << >>
                    THEN Emit([Sent(y, command, o.kind) EXCEPT !.child = "none"], JDB_EXITED)
                    ELSE [Sent(y, command, o.kind) EXCEPT !.child = "none"]
               [] OTHER -> Emit(y, JDB_SEND_FAILED)
             : o \in SendOutcomes("alive") }
      : y \in jdb_ensure_session_started(x) }

jdb_run_command(x, text) ==
    LET cmd == Strip(text)
        lower == Lower(cmd)
    IN  IF cmd = "" THEN { x }
        ELSE IF lower \in EXIT_COMMANDS
        THEN { Emit([(IF x.child = "alive" THEN Sent(x, "quit", "exit") ELSE x)
                       EXCEPT !.child = "none"], JDB_TERMINATED) }
        ELSE jdb_send_and_capture(x, jdb_alias(lower, cmd))

\* backend.run_command(text)
run_command(name, x, text) ==
    CASE name = "gdb"     -> gdb_run_command(x, text)
      [] name = "delve"   -> delve_run_command(x, text)
      [] name = "radare2" -> radare2_run_command(x, text)
      [] name = "lldb"    -> lldb_run_command(x, text)
      [] OTHER            -> jdb_run_command(x, text)

\* a backend after initialize_session() returned: gdb, delve, radare2 and
\* lldb hold a live child, jdb spawns on the first command
BackendInit ==
    /\ \E name \in Backends :
         /\ backend_name = Some(name)
         /\ child = IF name = "jdb" THEN "none" ELSE "alive"
    /\ timeout_reported = FALSE
    /\ empty_count = 0
    /\ suggested_once = FALSE
    /\ raised = FALSE
    /\ inits = << >>
    /\ NoPump
    /\ NoAgent
    /\ NoServices
    /\ session_id = 0
    /\ facts = << >>
    /\ chatlog = << >>
    /\ attempts = << >>
    /\ last_output = ""
    /\ config = [auto_accept_commands |-> None, auto_round_limit |-> None,
                 llm_provider |-> None]
    /\ selected_provider = None
    /\ pending_command = None
    /\ auto_accept_commands = FALSE
    /\ auto_rounds_remaining = None
    /\ pending_outputs = << >>
    /\ pending_chat = << >>
    /\ pending_chat_events = << >>
    /\ last_answer_streamed = FALSE
    /\ colors_enabled = FALSE
    /\ debugger_output_sink = "none"
    /\ chat_output_sink = "none"
    /\ max_context_chars = None
    /\ op = "init"
    /\ arg = ""
    /\ ret = << >>
    /\ calls = << >>
    /\ ran = << >>
    /\ guards = << >>
    /\ sunk = << >>

\* one call of backend.run_command(text); ran is what was sent to the child,
\* calls how each exchange with it ended, and ret the outputs that make the
\* returned text, joined by "\n"
RunCommand(text) ==
    /\ \E x \in run_command(backend_name[1], BackendState, text) :
         /\ x.empty_count <= MaxEmptyCount
         /\ child' = x.child
         /\ timeout_reported' = x.timeout_reported
         /\ empty_count' = x.empty_count
         /\ suggested_once' = x.suggested_once
         /\ raised' = x.raised
         /\ inits' = x.inits
         /\ ran' = x.sent
         /\ calls' = x.io
         /\ ret' = x.chunks
    /\ op' = "run_command"
    /\ arg' = text
    /\ guards' = << >>
    /\ sunk' = << >>
    /\ UNCHANGED << backend_name, pumpVars, sessionVars, max_context_chars, agentVars,
                    serviceVars >>

BackendNext == \E text \in CommandTexts : RunCommand(text)

BackendSpec == BackendInit /\ [][BackendNext]_vars


(***************************************************************************)
(* dbgweb: SessionManager (dbgweb/app/services/session_manager.py) behind  *)
(* the REST routes (dbgweb/app/api/routes.py).  The event loop runs the    *)
(* handlers; backend.run_command and orchestrator.ask run on worker        *)
(* threads started by asyncio.to_thread, so a handler is two steps: the    *)
(* call is started, and later it returns.                                  *)
(***************************************************************************)
MaxWebSessions == 2
MaxWorkers == 2

\* the "debugger" field of POST /api/sessions
WebDebuggers == { "gdb", "lldb", "delve", "radare2", "jdb" }

\* whether "import lldb" works decides which LLDB backend is built
LldbEnvs == { "api", "inprocess", "none" }

\* _create_backend: the class of the backend built, << >> when it raises
_create_backend(debugger, program, env) ==
    CASE debugger = "gdb"     -> Some("GdbSubprocessBackend")
      [] debugger = "lldb"    ->
            CASE env = "api"       -> Some("LldbApiBackend")
              [] env = "inprocess" -> Some("LldbInProcessBackend")
              [] OTHER             -> Some("LldbSubprocessBackend")
      [] debugger = "delve"   ->
            IF program THEN Some("DelveSubprocessBackend") ELSE None
      [] debugger = "radare2" ->
            IF program THEN Some("Radare2SubprocessBackend") ELSE None
      [] OTHER                -> None

\* the backends that spawn a debugger process in initialize_session
SpawnsChild(class) ==
    class \in { "GdbSubprocessBackend", "LldbSubprocessBackend",
                "DelveSubprocessBackend", "Radare2SubprocessBackend" }

\* hasattr(backend, "close"): the backend classes that define close()
HasClose(class) ==
    class \in { "JavaJdbBackend", "PythonDebugpyBackend", "PythonPdbBackend" }

\* the dict entry d[k] = v
Put(d, k, v) == [ x \in DOMAIN d \cup { k } |-> IF x = k THEN v ELSE d[x] ]

WebFrame ==
    /\ ret' = << >>
    /\ calls' = << >>
    /\ ran' = << >>
    /\ guards' = << >>
    /\ sunk' = << >>
    /\ UNCHANGED << sessionVars, max_context_chars, agentVars, backendVars,
                    registryVars, paramVars >>

\* the session manager after construction: no session
WebInit ==
    /\ web_sessions = {}
    /\ web_backends = << >>
    /\ web_workers = {}
    /\ NoRegistry
    /\ NoParams
    /\ NoAgent
    /\ NoBackend
    /\ session_id = 0
    /\ facts = << >>
    /\ chatlog = << >>
    /\ attempts = << >>
    /\ last_output = ""
    /\ config = [auto_accept_commands |-> None, auto_round_limit |-> None,
                 llm_provider |-> None]
    /\ selected_provider = None
    /\ pending_command = None
    /\ auto_accept_commands = FALSE
    /\ auto_rounds_remaining = None
    /\ pending_outputs = << >>
    /\ pending_chat = << >>
    /\ pending_chat_events = << >>
    /\ last_answer_streamed = FALSE
    /\ colors_enabled = FALSE
    /\ debugger_output_sink = "none"
    /\ chat_output_sink = "none"
    /\ max_context_chars = None
    /\ op = "init"
    /\ arg = ""
    /\ ret = << >>
    /\ calls = << >>
    /\ ran = << >>
    /\ guards = << >>
    /\ sunk = << >>

\* create_session: the backend is built and initialized (which may raise),
\* the session is stored under a fresh id
CreateSession(debugger, program, env, spawned) ==
    /\ Cardinality(DOMAIN web_backends) < MaxWebSessions
    /\ LET class == _create_backend(debugger, program, env)
           sid == Cardinality(DOMAIN web_backends) + 1
       IN IF class = None \/ (SpawnsChild(class[1]) /\ ~spawned)
          THEN UNCHANGED << web_sessions, web_backends >>
          ELSE /\ web_sessions' = web_sessions \cup { sid }
               /\ web_backends' =
                    Put(web_backends, sid,
                        [class |-> class[1],
                         child |-> IF SpawnsChild(class[1]) THEN "alive" ELSE "none"])
    /\ op' = "create_session"
    /\ arg' = debugger
    /\ UNCHANGED web_workers
    /\ WebFrame

\* POST /sessions/{id}/command and POST /sessions/{id}/chat up to the await:
\* get_session finds the session and to_thread starts the call on a worker
StartCall(sid, kind) ==
    /\ sid \in web_sessions
    /\ Cardinality(web_workers) < MaxWorkers
    /\ LET n == CHOOSE k \in 1..MaxWorkers : \A w \in web_workers : w.n # k
       IN web_workers' = web_workers \cup { [sid |-> sid, kind |-> kind, n |-> n] }
    /\ op' = kind
    /\ arg' = "start"
    /\ UNCHANGED << web_sessions, web_backends >>
    /\ WebFrame

\* the worker's call returns and the handler finishes
FinishCall(w) ==
    /\ w \in web_workers
    /\ web_workers' = web_workers \ { w }
    /\ op' = w.kind
    /\ arg' = "done"
    /\ UNCHANGED << web_sessions, web_backends >>
    /\ WebFrame

\* close_session: the session is popped, and close() is called on a backend
\* that has one
CloseSession(sid) ==
    /\ sid \in DOMAIN web_backends
    /\ web_sessions' = web_sessions \ { sid }
    /\ web_backends' =
         IF sid \in web_sessions /\ HasClose(web_backends[sid].class)
         THEN [ web_backends EXCEPT ![sid].child = "killed" ]
         ELSE web_backends
    /\ op' = "close_session"
    /\ arg' = "returned"
    /\ UNCHANGED web_workers
    /\ WebFrame

\* __del__ of a backend nothing refers to any more: whether and when the
\* collector runs it is not decided by the program
Finalize(sid) ==
    /\ sid \in DOMAIN web_backends
    /\ sid \notin web_sessions
    /\ \A w \in web_workers : w.sid # sid
    /\ web_backends[sid].child = "alive"
    /\ web_backends' = [ web_backends EXCEPT ![sid].child = "killed" ]
    /\ op' = "finalize"
    /\ arg' = ""
    /\ UNCHANGED << web_sessions, web_workers >>
    /\ WebFrame

WebNext ==
    \/ \E debugger \in WebDebuggers, program \in BOOLEAN, env \in LldbEnvs,
          spawned \in BOOLEAN : CreateSession(debugger, program, env, spawned)
    \/ \E sid \in 1..MaxWebSessions, kind \in { "command", "chat" } : StartCall(sid, kind)
    \/ \E w \in web_workers : FinishCall(w)
    \/ \E sid \in 1..MaxWebSessions : CloseSession(sid)
    \/ \E sid \in 1..MaxWebSessions : Finalize(sid)

WebSpec == WebInit /\ [][WebNext]_vars


(***************************************************************************)
(* The provider registry (dbgcopilot/llm/providers.py): llm_providers.json *)
(* on disk, the module globals _config_cache and _registry, and the calls  *)
(* that change them.  A call runs on a thread as the steps between which   *)
(* another thread can run: the file is read, the file is written, the      *)
(* file is read again by _rebuild_registry, _registry is assigned.         *)
(***************************************************************************)
MaxRegistryCalls == 3

\* DEFAULT_CONFIG["providers"], one entry of it
DEFAULT_PROVIDERS ==
    [ n \in { "ollama" } |->
        [kind |-> "openai-compatible",
         description |-> "Local Ollama via OpenAI-compatible /v1/chat/completions",
         base_url |-> "http://localhost:11434",
         path |-> "/v1/chat/completions",
         default_model |-> "llama3.1"] ]

ProviderNames == { "ollama", "lab", "edge", "" }
FieldNames == { "model", "baseurl", "path", "colour" }
FieldValues == { "", "m2" }

\* the calls a thread can make
RegistryCalls ==
    [op : { "add_provider" }, name : ProviderNames, base_url : { "http://lab:8000" },
     path : { "", "/api/chat" }, default_model : { "", "m1" }, field : { "" },
     value : { "" }]
    \cup [op : { "set_provider_field" }, name : ProviderNames \ { "" },
          base_url : { "" }, path : { "" }, default_model : { "" },
          field : FieldNames, value : FieldValues]
    \cup [op : { "reload" }, name : { "" }, base_url : { "" }, path : { "" },
          default_model : { "" }, field : { "" }, value : { "" }]

\* _FIELD_ALIAS.get(field.lower()), "" for None
_FIELD_ALIAS(field) ==
    CASE field = "baseurl"  -> "base_url"
      [] field = "base_url" -> "base_url"
      [] field = "path"     -> "path"
      [] field = "model"    -> "default_model"
      [] field = "default_model" -> "default_model"
      [] field = "desc"     -> "description"
      [] field = "description" -> "description"
      [] OTHER -> ""

\* _merge_default_providers: the defaults the file lacks are added
_merge_default_providers(providers) ==
    [ n \in DOMAIN providers \cup DOMAIN DEFAULT_PROVIDERS |->
        IF n \in DOMAIN providers THEN providers[n] ELSE DEFAULT_PROVIDERS[n] ]

\* _load_config(refresh=True) on a file holding the providers file_: what it
\* returns, which is written back (_save_config) when defaults were merged
_load_config(file_) ==
    LET data == _merge_default_providers(file_)
    IN [data |-> data, file |-> data, cache |-> data]

\* a save that misses the file
_save_config_cache_only(data) == [file |-> cfg_file, cache |-> data]

\* _save_config(data)
_save_config(data) == [file |-> data, cache |-> data]

\* the entry add_provider builds
NewEntry(c) ==
    [kind |-> "openai-compatible",
     description |-> "",
     base_url |-> c.base_url,
     path |-> IF c.path # "" THEN c.path ELSE "/v1/chat/completions",
     default_model |-> c.default_model]

\* the entry after entry[key] = value
WithField(entry, key, value) == [ entry EXCEPT ![key] = value ]

\* _build_provider and Provider.__init__: the meta of the Provider
_build_provider(name, entry) ==
    [kind |-> entry.kind, description |-> entry.description,
     base_url |-> entry.base_url, path |-> entry.path,
     default_model |-> entry.default_model,
     desc |-> entry.description, name |-> name]

Idle == [pc |-> "idle", call |-> << >>, data |-> << >>]

RegistryFrame ==
    /\ UNCHANGED << sessionVars, max_context_chars, agentVars, backendVars,
                    webVars, paramVars >>
    /\ guards' = << >>
    /\ sunk' = << >>
    /\ ran' = << >>

\* a process with threads threads that has not touched the registry; the
\* file is the one _ensure_config_file wrote, or has no providers yet
RegistryInit(threads) ==
    /\ cfg_file \in { << >>, DEFAULT_PROVIDERS }
    /\ config_cache = << >>
    /\ registry = << >>
    /\ reg_threads = [ t \in threads |-> Idle ]
    /\ NoWeb
    /\ NoParams
    /\ NoAgent
    /\ NoBackend
    /\ session_id = 0
    /\ facts = << >>
    /\ chatlog = << >>
    /\ attempts = << >>
    /\ last_output = ""
    /\ config = [auto_accept_commands |-> None, auto_round_limit |-> None,
                 llm_provider |-> None]
    /\ selected_provider = None
    /\ pending_command = None
    /\ auto_accept_commands = FALSE
    /\ auto_rounds_remaining = None
    /\ pending_outputs = << >>
    /\ pending_chat = << >>
    /\ pending_chat_events = << >>
    /\ last_answer_streamed = FALSE
    /\ colors_enabled = FALSE
    /\ debugger_output_sink = "none"
    /\ chat_output_sink = "none"
    /\ max_context_chars = None
    /\ op = "init"
    /\ arg = ""
    /\ ret = << >>
    /\ calls = << >>
    /\ ran = << >>
    /\ guards = << >>
    /\ sunk = << >>

\* the call c of thread t ends: calls records it with what it returned
\* (<< >> when it raised)
Ended(t, c, result) ==
    /\ calls' = Append(calls, [thread |-> t, op |-> c.op, name |-> c.name,
                               field |-> c.field, result |-> result])
    /\ op' = c.op
    /\ arg' = c.name
    /\ ret' = result

Running(t, c, pc, data) ==
    /\ reg_threads' = [ reg_threads EXCEPT ![t] = [pc |-> pc, call |-> Some(c), data |-> data] ]
    /\ op' = c.op
    /\ arg' = pc
    /\ UNCHANGED << calls, ret >>

\* a call up to its first write: the arguments are checked, the file is
\* read and the change is made on the data read
Begin(t, c) ==
    /\ reg_threads[t].pc = "idle"
    /\ Len(calls) + Cardinality({ u \in DOMAIN reg_threads : reg_threads[u].pc # "idle" })
         < MaxRegistryCalls
    /\ UNCHANGED registry
    /\ CASE c.op = "reload" ->
              /\ Running(t, c, "rebuild", << >>)
              /\ UNCHANGED << cfg_file, config_cache >>
         [] c.op = "add_provider" /\ c.name = "" ->
              /\ Ended(t, c, << >>)
              /\ UNCHANGED << cfg_file, config_cache, reg_threads >>
         [] c.op = "set_provider_field" /\ _FIELD_ALIAS(c.field) = "" ->
              /\ Ended(t, c, << >>)
              /\ UNCHANGED << cfg_file, config_cache, reg_threads >>
         [] OTHER ->
              LET r == _load_config(cfg_file)
              IN /\ cfg_file' = r.file
                 /\ config_cache' = r.cache
                 /\ IF c.op = "add_provider"
                    THEN IF c.name \in DOMAIN r.data
                         THEN Ended(t, c, << >>) /\ UNCHANGED reg_threads
                         ELSE Running(t, c, "save", Put(r.data, c.name, NewEntry(c)))
                    ELSE IF c.name \notin DOMAIN r.data
                         THEN Ended(t, c, << >>) /\ UNCHANGED reg_threads
                         ELSE Running(t, c, "save",
                                      Put(r.data, c.name,
                                          WithField(r.data[c.name], _FIELD_ALIAS(c.field),
                                                    c.value)))
    /\ RegistryFrame

\* _save_config(data): the file and the cache become the thread's data
Save(t) ==
    /\ reg_threads[t].pc = "save"
    /\ LET w == _save_config(reg_threads[t].data)
       IN /\ cfg_file' = w.file
          /\ config_cache' = w.cache
    /\ Running(t, reg_threads[t].call[1], "rebuild", reg_threads[t].data)
    /\ UNCHANGED registry
    /\ RegistryFrame

\* _rebuild_registry up to the loop: the file is read again
RebuildLoad(t) ==
    /\ reg_threads[t].pc = "rebuild"
    /\ LET r == _load_config(cfg_file)
       IN /\ cfg_file' = r.file
          /\ config_cache' = r.cache
          /\ Running(t, reg_threads[t].call[1], "swap", r.data)
    /\ UNCHANGED registry
    /\ RegistryFrame

\* _rebuild_registry's assignment to _registry, and the call returns
RebuildSwap(t) ==
    /\ reg_threads[t].pc = "swap"
    /\ LET c == reg_threads[t].call[1]
           data == reg_threads[t].data
       IN /\ registry' = [ n \in DOMAIN data |-> _build_provider(n, data[n]) ]
          /\ Ended(t, c,
                   CASE c.op = "add_provider" -> Some(NewEntry(c))
                     [] c.op = "set_provider_field" -> Some(c.value)
                     [] OTHER -> Some(""))
    /\ reg_threads' = [ reg_threads EXCEPT ![t] = Idle ]
    /\ UNCHANGED << cfg_file, config_cache >>
    /\ RegistryFrame

RegistryNext ==
    \E t \in DOMAIN reg_threads :
       \/ \E c \in RegistryCalls : Begin(t, c)
       \/ Save(t)
       \/ RebuildLoad(t)
       \/ RebuildSwap(t)

\* the registry used by one thread, as in the REPL
RegistrySpec == RegistryInit({ 1 }) /\ [][RegistryNext]_vars

\* the registry used by two threads of one process
RegistryRaceSpec == RegistryInit({ 1, 2 }) /\ [][RegistryNext]_vars


(***************************************************************************)
(* Provider parameters (dbgcopilot/llm/params.py): the REPL's              *)
(* "/llm params set" and "/llm params clear" (repl/standalone.py) change   *)
(* the session's parameter store, and _ask_openai_compat                   *)
(* (llm/openai_compat.py) applies the store to the request body.           *)
(* A value is [t, n, s, l]: its Python type, and the number, string or     *)
(* list it is; a float is held in tenths.  A body is a map from paths to   *)
(* nodes, a node being a value or a dict.                                  *)
(***************************************************************************)
MaxParams == 2

Value(t, n, s, l) == [t |-> t, n |-> n, s |-> s, l |-> l]
DictNode == Value("dict", 0, "", << >>)

ParamNames == { "max_tokens", "temp", "enable_thinking", "thinking", "a.b.c" }
RawValues == { "1", "0", "2.7", "-1.5", "true", "none", "abc" }

\* _alias_map(meta).get(name): _COMMON_ALIASES and the provider's
\* param_aliases (deepseek's), name itself when it is no alias
_alias_map(name) ==
    CASE name = "temp"            -> "temperature"
      [] name = "stop_sequences"  -> "stop"
      [] name = "repeat_penalty"  -> "extras.repeat_penalty"
      [] name = "mirostat"        -> "extras.mirostat"
      [] name = "web_search"      -> "extras.enable_web_search"
      [] name = "enable_thinking" -> "thinking.enabled"
      [] OTHER                    -> name

\* canonicalize_param: << >> when it raises
canonicalize_param(param) ==
    LET name == Strip(param)
    IN  IF name = "" THEN None ELSE Some(_alias_map(Lower(name)))

\* canonical.split(".") for the names of the model
SplitDots(canonical) ==
    CASE canonical = "thinking.enabled"         -> << "thinking", "enabled" >>
      [] canonical = "extras.mirostat"          -> << "extras", "mirostat" >>
      [] canonical = "extras.repeat_penalty"    -> << "extras", "repeat_penalty" >>
      [] canonical = "extras.enable_web_search" -> << "extras", "enable_web_search" >>
      [] canonical = "a.b.c"                    -> << "a", "b", "c" >>
      [] OTHER                                  -> << canonical >>

\* float(text) in tenths for the texts of the model, << >> when it raises
ParseFloat(text) ==
    CASE text = "1"    -> Some(10)
      [] text = "0"    -> Some(0)
      [] text = "2.7"  -> Some(27)
      [] text = "-1.5" -> Some(-15)
      [] OTHER         -> None

\* int(x) of a float held in tenths: truncation toward zero
IntOf(tenths) == IF tenths >= 0 THEN tenths \div 10 ELSE -((-tenths) \div 10)

\* [segment.strip() for segment in text.split(",") if segment.strip()]
SplitComma(text) ==
    CASE text = "a, b" -> << "a", "b" >>
      [] OTHER         -> << text >>

\* _coerce_value(canonical, raw_value) for a string raw_value
_coerce_value(canonical, raw_value) ==
    LET text == Strip(raw_value)
        lowered == Lower(text)
        base == Last_(SplitDots(canonical))
        f == ParseFloat(text)
        Ok(v) == [value |-> Some(v), cleared |-> FALSE, raised |-> FALSE]
        Cleared == [value |-> None, cleared |-> TRUE, raised |-> FALSE]
        Raised == [value |-> None, cleared |-> FALSE, raised |-> TRUE]
    IN  CASE text = "" -> Cleared
          [] lowered \in { "none", "null", "clear" } -> Cleared
          [] lowered \in { "true", "1", "yes", "on" } -> Ok(Value("bool", 1, "", << >>))
          [] lowered \in { "false", "0", "no", "off" } -> Ok(Value("bool", 0, "", << >>))
          [] base \in { "max_tokens", "top_k", "mirostat" } ->
                IF f = None THEN Raised ELSE Ok(Value("int", IntOf(f[1]), "", << >>))
          [] base \in { "temperature", "top_p", "presence_penalty", "frequency_penalty",
                        "repeat_penalty" } ->
                IF f = None THEN Raised ELSE Ok(Value("float", f[1], "", << >>))
          [] base = "stop" -> Ok(Value("list", 0, "", SplitComma(text)))
          [] OTHER -> Ok(Value("str", 0, text, << >>))

\* where canonical stands in the store, 0 when it is not there
IndexOf(store, canonical) ==
    IF \E i \in 1..Len(store) : store[i].k = canonical
    THEN CHOOSE i \in 1..Len(store) : store[i].k = canonical
    ELSE 0

\* a set that adds the pair without looking for the key
set_session_param_append(store, canonical, value) ==
    Append(store, [k |-> canonical, v |-> value])

\* set_session_param: store[canonical] = value, a dict keeping the order
\* in which its keys were first set
set_session_param(store, canonical, value) ==
    IF IndexOf(store, canonical) # 0
    THEN [ store EXCEPT ![IndexOf(store, canonical)].v = value ]
    ELSE Append(store, [k |-> canonical, v |-> value])

\* clear_session_param: store.pop(canonical, None)
clear_session_param(store, canonical) ==
    SelectSeq(store, LAMBDA e : e.k # canonical)

IsPrefix(p, q) == Len(p) <= Len(q) /\ SubSeq(q, 1, Len(p)) = p

\* an application that uses the dotted name as one key
_apply_path_flat(target, canonical, value) ==
    [ q \in DOMAIN target \cup { << canonical >> } |->
        IF q = << canonical >> THEN value ELSE target[q] ]

\* _apply_path(target, canonical, value) for a value that is not None
_apply_path(target, canonical, value) ==
    LET parts == SelectSeq(SplitDots(canonical), LAMBDA segment : segment # "")
        dicts == { SubSeq(parts, 1, k) : k \in 1..(Len(parts) - 1) }
        kept == { q \in DOMAIN target : ~IsPrefix(parts, q) }
        leaf == IF Last_(parts) = "stop" /\ value.t = "str"
                THEN Value("list", 0, "", << value.s >>) ELSE value
    IN  IF parts = << >> THEN target
        ELSE [ q \in kept \cup dicts \cup { parts } |->
                 IF q = parts THEN leaf
                 ELSE IF q \in dicts
                      THEN (IF q \in DOMAIN target /\ target[q].t = "dict"
                            THEN target[q] ELSE DictNode)
                      ELSE target[q] ]

RECURSIVE apply_params(_, _)
\* apply_params(body, params, meta, assume_canonical=True)
apply_params(target, store) ==
    IF store = << >> THEN target
    ELSE apply_params(_apply_path(target, Head(store).k, Head(store).v), Tail(store))

\* the body _ask_openai_compat starts from
BaseBody ==
    [ q \in { << "model" >>, << "messages" >>, << "max_tokens" >>, << "temperature" >> } |->
        CASE q = << "model" >>      -> Value("str", 0, "deepseek-chat", << >>)
          [] q = << "messages" >>   -> Value("list", 0, "", << "user" >>)
          [] q = << "max_tokens" >> -> Value("int", 512, "", << >>)
          [] OTHER                  -> Value("float", 0, "", << >>) ]

ParamsFrame ==
    /\ calls' = << >>
    /\ ran' = << >>
    /\ guards' = << >>
    /\ sunk' = << >>
    /\ UNCHANGED << sessionVars, max_context_chars, agentVars, backendVars,
                    webVars, registryVars >>

\* a session just made, with nothing logged
FreshSession ==
    /\ NoWeb
    /\ NoRegistry
    /\ NoAgent
    /\ NoBackend
    /\ session_id = 0
    /\ facts = << >>
    /\ chatlog = << >>
    /\ attempts = << >>
    /\ last_output = ""
    /\ config = [auto_accept_commands |-> None, auto_round_limit |-> None,
                 llm_provider |-> None]
    /\ selected_provider = None
    /\ pending_command = None
    /\ auto_accept_commands = FALSE
    /\ auto_rounds_remaining = None
    /\ pending_outputs = << >>
    /\ pending_chat = << >>
    /\ pending_chat_events = << >>
    /\ last_answer_streamed = FALSE
    /\ colors_enabled = FALSE
    /\ debugger_output_sink = "none"
    /\ chat_output_sink = "none"
    /\ max_context_chars = None
    /\ calls = << >>
    /\ ran = << >>
    /\ guards = << >>
    /\ sunk = << >>

\* a session with no parameter override
ParamsInit ==
    /\ FreshSession
    /\ NoParams
    /\ op = "init"
    /\ arg = << >>
    /\ ret = << >>

\* the store after "/llm params set <param> <value>": parse_value, then the
\* override is set, or cleared when the value coerces to None; a value that
\* does not parse leaves the store
params_set(store, param, raw_value) ==
    LET canonical == canonicalize_param(param)
        got == _coerce_value(canonical[1], raw_value)
    IN  CASE got.raised  -> store
          [] got.cleared -> clear_session_param(store, canonical[1])
          [] OTHER       -> set_session_param(store, canonical[1], got.value[1])

\* the store after "/llm params clear <param>"
params_clear(store, param) ==
    clear_session_param(store, canonicalize_param(param)[1])

\* "/llm params set <param> <value>"; ret is what parse_value gave
SetParam(param, raw_value) ==
    /\ LET canonical == canonicalize_param(param)
           got == _coerce_value(canonical[1], raw_value)
       IN  /\ ret' = << [canonical |-> canonical[1], value |-> got.value,
                         cleared |-> got.cleared, raised |-> got.raised] >>
           /\ params' = params_set(params, param, raw_value)
           /\ Len(params') <= MaxParams
    /\ op' = "set"
    /\ arg' = << param, raw_value >>
    /\ body' = << >>
    /\ ParamsFrame

\* "/llm params clear <param>"
ClearParam(param) ==
    /\ LET canonical == canonicalize_param(param)
       IN  /\ params' = params_clear(params, param)
           /\ ret' = << [canonical |-> canonical[1], value |-> None,
                         cleared |-> IndexOf(params, canonical[1]) # 0, raised |-> FALSE] >>
    /\ op' = "clear"
    /\ arg' = << param >>
    /\ body' = << >>
    /\ ParamsFrame

\* _ask_openai_compat up to the post: body is what it sends
Request ==
    /\ body' = apply_params(BaseBody, params)
    /\ op' = "request"
    /\ arg' = << >>
    /\ ret' = << >>
    /\ UNCHANGED params
    /\ ParamsFrame

ParamsNext ==
    \/ \E param \in ParamNames, raw_value \in RawValues : SetParam(param, raw_value)
    \/ \E param \in ParamNames : ClearParam(param)
    \/ Request

ParamsSpec == ParamsInit /\ [][ParamsNext]_vars


(***************************************************************************)
(* _get_cfg (dbgcopilot/llm/openai_compat.py): the settings of the         *)
(* OpenAI-compatible client for a provider name, from the session config,  *)
(* the environment and the registry entry's defaults.  A source holds a    *)
(* setting as << v >> and lacks it (or holds it empty) as << >>; headers   *)
(* are sets of << name, value >> pairs.                                    *)
(***************************************************************************)
CfgNames == { "ollama", "kimi", "glm", "openai-http" }
Opt(v) == { None, Some(v) }

\* session config and environment: base_url, api_key, model, path, headers
SessionConfigs ==
    [ base_url : Opt("http://sc"), api_key : Opt("key-sc"), model : Opt("model-sc"),
      path : Opt("/sc"), headers : Opt({ << "X", "sc" >> }) ]
Environments ==
    [ base_url : Opt("http://env"), api_key : Opt("key-env"), model : Opt("model-env"),
      path : Opt("/env"), headers : { None } ]
\* _provider_defaults(meta): base_url, path, default_model, headers
RegistryDefaults ==
    [ base_url : Opt("http://reg"), path : Opt("/reg"), default_model : Opt("model-reg"),
      headers : Opt({ << "X", "reg" >>, << "Y", "reg" >> }) ]

\* a or b of two optional values
Or(a, b) == IF a # None THEN a ELSE b

\* pick(sc_key, env_key, default)
pick(sc, env, setting, default) == Or(sc[setting], Or(env[setting], default))

\* merged = dict(default_headers); merged.update(headers)
MergeHeaders(default_headers, headers) ==
    { h \in default_headers : \A g \in headers : g[1] # h[1] } \cup headers

\* the built-in base_url, model and path of a known name
BuiltIn(name) ==
    CASE name = "ollama" -> [base_url |-> Some("http://localhost:11434"),
                             model |-> Some("llama3.1"), path |-> None]
      [] name = "kimi"   -> [base_url |-> Some("https://api.moonshot.cn"),
                             model |-> Some("moonshot-v1-8k"), path |-> None]
      [] name = "glm"    -> [base_url |-> Some("https://open.bigmodel.cn/api/paas/v4"),
                             model |-> Some("glm-4"), path |-> Some("/chat/completions")]
      [] OTHER           -> [base_url |-> None, model |-> None, path |-> None]

\* _get_cfg(name, session_config, defaults)
_get_cfg(name, sc, env, defaults) ==
    LET base_url == Or(pick(sc, env, "base_url", None), defaults.base_url)
        model == pick(sc, env, "model", None)
        path == pick(sc, env, "path", Or(defaults.path, Some("/v1/chat/completions")))
        path_override == sc.path # None \/ env.path # None
        headers_raw == pick(sc, env, "headers", None)
        headers == IF headers_raw # None THEN headers_raw[1] ELSE {}
        known == BuiltIn(name)
        model_known == Or(model, known.model)
    IN  [ base_url |-> Or(Or(base_url, known.base_url), defaults.base_url),
          api_key  |-> pick(sc, env, "api_key", None),
          model    |-> Or(model_known, defaults.default_model),
          path     |-> IF name = "glm" /\ ~path_override THEN Some("/chat/completions")
                       ELSE path,
          headers  |-> Some(IF defaults.headers # None
                            THEN MergeHeaders(defaults.headers[1], headers)
                            ELSE headers) ]

\* a provider name, a session config, an environment and registry defaults
CfgInit ==
    /\ FreshSession
    /\ NoParams
    /\ op = "init"
    /\ arg \in CfgNames \X SessionConfigs \X Environments \X RegistryDefaults
    /\ ret = << >>

\* one call of _get_cfg on arg; ret is what it returned
GetCfg ==
    /\ op = "init"
    /\ op' = "get_cfg"
    /\ ret' = << _get_cfg(arg[1], arg[2], arg[3], arg[4]) >>
    /\ UNCHANGED << arg, paramVars >>
    /\ ParamsFrame

CfgSpec == CfgInit /\ [][GetCfg]_vars


(***************************************************************************)
(* resolve_auto_round_limit (core/state.py) on its own: a config with the  *)
(* two keys it reads, and one call.                                        *)
(***************************************************************************)
LimitInit ==
    /\ FreshSession
    /\ NoParams
    /\ op = "init"
    /\ arg \in [ auto_round_limit : RawLimits, auto_rounds_limit : RawLimits ]
    /\ ret = << >>

\* one call of resolve_auto_round_limit on arg; ret is what it returned
ResolveLimit ==
    /\ op = "init"
    /\ op' = "resolve"
    /\ ret' = << resolve_auto_round_limit(arg) >>
    /\ UNCHANGED << arg, paramVars >>
    /\ ParamsFrame

LimitSpec == LimitInit /\ [][ResolveLimit]_vars


(***************************************************************************)
(* _execute_once (core/orchestrator.py), statement by statement: op is the *)
(* statement the call has just done, arg the command and what              *)
(* backend.run_command returns for it, ret the locals out and streamed.    *)
(***************************************************************************)
ExecOutputs == BackendOutputs \cup { "", LongText }

\* a session with a sink or none, before _execute_once(self, exec_cmd)
ExecInit ==
    /\ NoWeb
    /\ NoRegistry
    /\ NoParams
    /\ NoAgent
    /\ NoBackend
    /\ session_id = 0
    /\ facts = << >>
    /\ chatlog = << >>
    /\ attempts = << >>
    /\ last_output = ""
    /\ config = [auto_accept_commands |-> None, auto_round_limit |-> None,
                 llm_provider |-> None]
    /\ selected_provider = None
    /\ pending_command = None
    /\ auto_accept_commands = FALSE
    /\ auto_rounds_remaining = None
    /\ pending_outputs = << >>
    /\ pending_chat = << >>
    /\ pending_chat_events = << >>
    /\ last_answer_streamed = FALSE
    /\ colors_enabled \in BOOLEAN
    /\ debugger_output_sink \in SinkModes
    /\ chat_output_sink = "none"
    /\ max_context_chars = None
    /\ op = "init"
    /\ arg \in Commands \X ExecOutputs
    /\ ret = << >>
    /\ calls = << >>
    /\ ran = << >>
    /\ guards = << >>
    /\ sunk = << >>

\* the call goes from statement from to statement to; what no statement of
\* _execute_once writes stays
ExecStep(from, to) ==
    /\ op = from
    /\ op' = to
    /\ UNCHANGED << session_id, config, selected_provider, pending_command,
                    auto_accept_commands, auto_rounds_remaining, pending_chat,
                    pending_chat_events, last_answer_streamed, colors_enabled,
                    debugger_output_sink, chat_output_sink, max_context_chars,
                    arg, calls, guards, agentVars, backendVars, serviceVars >>

\* out = _execute_and_format(self.backend, exec_cmd, colors=colors)
ExecRun ==
    /\ ExecStep("init", "run")
    /\ ran' = Append(ran, arg[1])
    /\ ret' = << [out |-> _execute_and_format(arg[1], arg[2], colors_enabled),
                  streamed |-> FALSE] >>
    /\ UNCHANGED << last_output, attempts, chatlog, sunk, pending_outputs, facts >>

\* self.state.last_output = out
ExecLastOutput ==
    /\ ExecStep("run", "last_output")
    /\ last_output' = ret[1].out
    /\ UNCHANGED << ran, ret, attempts, chatlog, sunk, pending_outputs, facts >>

\* an append that keeps the whole output
ExecAttempt_whole ==
    /\ ExecStep("last_output", "attempt")
    /\ attempts' = Append(attempts, [cmd |-> arg[1], output_snippet |-> ret[1].out])
    /\ UNCHANGED << ran, ret, last_output, chatlog, sunk, pending_outputs, facts >>

\* self.state.attempts.append(Attempt(cmd=exec_cmd, output_snippet=(out or "")[:160]))
ExecAttempt ==
    /\ ExecStep("last_output", "attempt")
    /\ attempts' = Append(attempts, [cmd |-> arg[1],
                                     output_snippet |-> Prefix(ret[1].out, SNIPPET_CHARS)])
    /\ UNCHANGED << ran, ret, last_output, chatlog, sunk, pending_outputs, facts >>

\* self.state.chatlog.append("Assistant: (executed) ...")
ExecChatlog ==
    /\ ExecStep("attempt", "chatlog")
    /\ chatlog' = Append(chatlog, ExecutedLine(arg[1], ret[1].out))
    /\ UNCHANGED << ran, ret, last_output, attempts, sunk, pending_outputs, facts >>

\* sink(out) when there is a sink: streamed unless it raises
ExecSink ==
    /\ ExecStep("chatlog", "sink")
    /\ sunk' = IF debugger_output_sink = "ok"
               THEN Append(sunk, [sink |-> "debugger", chunk |-> ret[1].out])
               ELSE sunk
    /\ ret' = << [ret[1] EXCEPT !.streamed = debugger_output_sink = "ok"] >>
    /\ UNCHANGED << ran, last_output, attempts, chatlog, pending_outputs, facts >>

\* if out: if not streamed: self.state.pending_outputs.append(out)
ExecBuffer ==
    /\ ExecStep("sink", "buffer")
    /\ pending_outputs' = IF ret[1].out # "" /\ ~ret[1].streamed
                          THEN Append(pending_outputs, ret[1].out)
                          ELSE pending_outputs
    /\ UNCHANGED << ran, ret, last_output, attempts, chatlog, sunk, facts >>

\* if out: self.state.facts.append(f"O: {out.splitlines()[0]}"); the first
\* line of out is the echoed command. Then return out, streamed
ExecFacts ==
    /\ ExecStep("buffer", "return")
    /\ facts' = IF ret[1].out # ""
                THEN Append(facts, [k |-> "O", s |-> "O: " \o _prefix_dbg_echo(
                                       arg[1], BackendName, colors_enabled)])
                ELSE facts
    /\ UNCHANGED << ran, ret, last_output, attempts, chatlog, sunk, pending_outputs >>

ExecNext ==
    \/ ExecRun
    \/ ExecLastOutput
    \/ ExecAttempt
    \/ ExecChatlog
    \/ ExecSink
    \/ ExecBuffer
    \/ ExecFacts

ExecSpec == ExecInit /\ [][ExecNext]_vars


(***************************************************************************)
(* API keys in a session: /llm key, /llm use and /config of the REPL       *)
(* (repl/standalone.py) and --llm-key of dbgagent (dbgagent/runner.py).    *)
(* ret is the text the operation prints, logs or writes, as its pieces.    *)
(***************************************************************************)
KeyProviders == { "openrouter", "openai-http" }
ProviderInputs == KeyProviders \cup { "nope" }
ApiKeys == { "sk-1", "sk-2" }
\* the words /llm key takes as a request to clear, and the keys
KeyInputs == ApiKeys \cup { "-", "clear" }

\* _session_api_key_key (standalone.py:368-371)
_session_api_key_key(provider) ==
    CASE provider = "openrouter"  -> "openrouter_api_key"
      [] provider = "openai-http" -> "openai_http_api_key"

\* the entries of s.config in the model, in the order repr() shows them; an
\* entry that is None is absent from the dict
ConfigFields ==
    << "auto_accept_commands", "auto_round_limit", "llm_provider",
       "openrouter_api_key", "openai_http_api_key" >>

EmptyConfig == [ f \in { ConfigFields[i] : i \in 1..Len(ConfigFields) } |-> None ]

RECURSIVE ReprItems(_, _)
\* repr() of the dict: 'name': 'value' for each entry, joined with ", "
ReprItems(cfg, names) ==
    IF names = << >> THEN << >>
    ELSE LET name == Head(names)
             rest == ReprItems(cfg, Tail(names))
         IN  IF cfg[name] = None THEN rest
             ELSE << "'" \o name \o "': '", cfg[name][1], "'" >>
                  \o (IF rest = << >> THEN << >> ELSE << ", " >> \o rest)

\* a REPL session before any command, or a dbgagent runner just constructed
\* from its command line (runner.py:79-84)
KeyInit ==
    /\ NoWeb
    /\ NoRegistry
    /\ NoParams
    /\ NoBackend
    /\ \/ /\ request = << >>
          /\ agent_pc = "off"
          /\ config = EmptyConfig
       \/ \E provider \in KeyProviders, key \in { None } \cup { Some(k) : k \in ApiKeys } :
            /\ request = [provider |-> provider, model |-> None, api_key |-> key]
            /\ agent_pc = "created"
            /\ config = [EmptyConfig EXCEPT ![_session_api_key_key(provider)] = key]
    /\ step = 0
    /\ final_report = << >>
    /\ session_id = 0
    /\ facts = << >>
    /\ chatlog = << >>
    /\ attempts = << >>
    /\ last_output = ""
    /\ selected_provider = None
    /\ pending_command = None
    /\ auto_accept_commands = FALSE
    /\ auto_rounds_remaining = None
    /\ pending_outputs = << >>
    /\ pending_chat = << >>
    /\ pending_chat_events = << >>
    /\ last_answer_streamed = FALSE
    /\ colors_enabled = FALSE
    /\ debugger_output_sink = "none"
    /\ chat_output_sink = "none"
    /\ max_context_chars = None
    /\ op = "init"
    /\ arg = << >>
    /\ ret = << >>
    /\ calls = << >>
    /\ ran = << >>
    /\ guards = << >>
    /\ sunk = << >>

\* what the operations of this section leave alone
KeyFrame ==
    /\ calls' = << >>
    /\ ran' = << >>
    /\ guards' = << >>
    /\ sunk' = << >>
    /\ UNCHANGED << session_id, facts, chatlog, attempts, last_output, pending_command,
                    auto_accept_commands, auto_rounds_remaining, pending_outputs,
                    pending_chat, pending_chat_events, last_answer_streamed, colors_enabled,
                    debugger_output_sink, chat_output_sink, max_context_chars >>
    /\ UNCHANGED << request, step, final_report, backendVars, serviceVars >>

\* /llm key <provider> <api_key> (standalone.py:731-746)
LlmKey(provider_input, api_key) ==
    /\ agent_pc = "off"
    /\ IF provider_input \notin KeyProviders
       THEN /\ ret' = << "Unknown provider: " \o provider_input >>
            /\ UNCHANGED config
       ELSE IF api_key \in { "-", "none", "clear" }
       THEN /\ config' = [config EXCEPT ![_session_api_key_key(provider_input)] = None]
            /\ ret' = << "API key cleared for " \o provider_input \o " (session only)." >>
       ELSE /\ config' = [config EXCEPT ![_session_api_key_key(provider_input)] = Some(api_key)]
            /\ ret' = << provider_input \o " API key set for this session." >>
    /\ op' = "llm_key"
    /\ arg' = << provider_input, api_key >>
    /\ UNCHANGED << selected_provider, agent_pc >>
    /\ KeyFrame

\* /llm use <name> (standalone.py:623-629)
LlmUseProvider(name) ==
    /\ agent_pc = "off"
    /\ IF name \notin KeyProviders
       THEN /\ ret' = << "Unknown provider: " \o name >>
            /\ UNCHANGED << config, selected_provider >>
       ELSE /\ selected_provider' = Some(name)
            /\ config' = [config EXCEPT !.llm_provider = Some(name)]
            /\ ret' = << "Selected provider: " \o name >>
    /\ op' = "llm_use"
    /\ arg' = << name >>
    /\ UNCHANGED agent_pc
    /\ KeyFrame

\* /config (standalone.py:856-860)
ShowConfig ==
    /\ agent_pc = "off"
    /\ ret' = << "Config: {" >> \o ReprItems(config, ConfigFields) \o << "}" >>
              \o << "Selected provider: ",
                    IF selected_provider = None THEN "None" ELSE selected_provider[1] >>
    /\ op' = "config"
    /\ arg' = << >>
    /\ UNCHANGED << config, selected_provider, agent_pc >>
    /\ KeyFrame

\* the lines run() logs about the request (runner.py:103-107)
AgentBanner ==
    /\ agent_pc = "created"
    /\ agent_pc' = "loop"
    /\ ret' = << "Provider: ", request.provider, " | Model: ",
                 IF request.model = None THEN "(default)" ELSE request.model[1] >>
    /\ op' = "log"
    /\ arg' = << >>
    /\ UNCHANGED << config, selected_provider >>
    /\ KeyFrame

\* the session details _write_report writes (runner.py:492-500)
WriteReport ==
    /\ agent_pc = "loop"
    /\ agent_pc' = "done"
    /\ ret' = << "LLM provider: ", request.provider, "LLM model: ",
                 IF request.model = None THEN "(default)" ELSE request.model[1] >>
    /\ op' = "report"
    /\ arg' = << >>
    /\ UNCHANGED << config, selected_provider >>
    /\ KeyFrame

KeyNext ==
    \/ \E provider_input \in ProviderInputs, api_key \in KeyInputs :
         LlmKey(provider_input, api_key)
    \/ \E name \in ProviderInputs : LlmUseProvider(name)
    \/ ShowConfig
    \/ AgentBanner
    \/ WriteReport

KeySpec == KeyInit /\ [][KeyNext]_vars


(***************************************************************************)
(* backends/radare2_subprocess.py: the stderr capture.  The main thread    *)
(* runs run_command one part at a time; one _pump thread per child reads   *)
(* the child's stderr and appends to _stderr_buffer.  The steps are the    *)
(* accesses to the buffer: an append and a drain are each made under       *)
(* _stderr_lock, the clear of _attach_stderr_reader is made without it.    *)
(* r2_gen numbers the child self._r2 holds; pumps[g] is the thread of      *)
(* child g; ret holds the responses; sunk logs the appends.                *)
(***************************************************************************)
MaxChildren == 2
MaxStderrChunks == 2
MaxCommands == 2

\* the thread _attach_stderr_reader starts: about to read, nothing read yet
NewPump == [pc |-> "read", read |-> 0]

\* a radare2 backend after initialize_session(): the first child and its
\* pump, an empty deque
PumpInit ==
    /\ NoWeb
    /\ NoRegistry
    /\ NoParams
    /\ NoAgent
    /\ backend_name = Some("radare2")
    /\ child = "alive"
    /\ timeout_reported = FALSE
    /\ empty_count = 0
    /\ suggested_once = FALSE
    /\ raised = FALSE
    /\ inits = << >>
    /\ r2_gen = 1
    /\ r2_main = [pc |-> "idle", leading |-> << >>]
    /\ pumps = << NewPump >>
    /\ stderr_buffer = << >>
    /\ session_id = 0
    /\ facts = << >>
    /\ chatlog = << >>
    /\ attempts = << >>
    /\ last_output = ""
    /\ config = [auto_accept_commands |-> None, auto_round_limit |-> None,
                 llm_provider |-> None]
    /\ selected_provider = None
    /\ pending_command = None
    /\ auto_accept_commands = FALSE
    /\ auto_rounds_remaining = None
    /\ pending_outputs = << >>
    /\ pending_chat = << >>
    /\ pending_chat_events = << >>
    /\ last_answer_streamed = FALSE
    /\ colors_enabled = FALSE
    /\ debugger_output_sink = "none"
    /\ chat_output_sink = "none"
    /\ max_context_chars = None
    /\ op = "init"
    /\ arg = << >>
    /\ ret = << >>
    /\ calls = << >>
    /\ ran = << >>
    /\ guards = << >>
    /\ sunk = << >>

\* what the steps of this section leave alone
PumpFrame ==
    UNCHANGED << backend_name, child, timeout_reported, empty_count, suggested_once,
                 raised, inits, sessionVars, max_context_chars, agentVars, serviceVars,
                 arg, calls, ran, guards >>

\* the child whose stderr pump g reads has ended
ChildGone(g) == g < r2_gen \/ r2_main.pc = "restart"

\* _pump: chunk = stream.read(1024) returned data; a chunk that is blank
\* after stripping is dropped (radare2_subprocess.py:200-208)
PumpRead(g, blank) ==
    /\ g \in 1..Len(pumps)
    /\ pumps[g].pc = "read"
    /\ pumps[g].read < MaxStderrChunks
    /\ pumps' = [pumps EXCEPT ![g] = [pc |-> IF blank THEN "read" ELSE "append",
                                      read |-> @.read + 1]]
    /\ op' = "pump_read"
    /\ UNCHANGED << r2_gen, r2_main, stderr_buffer, ret, sunk >>
    /\ PumpFrame

\* _pump: stream.read returned nothing, the loop ends
\* (radare2_subprocess.py:201-202)
PumpEof(g) ==
    /\ g \in 1..Len(pumps)
    /\ pumps[g].pc = "read"
    /\ ChildGone(g)
    /\ pumps' = [pumps EXCEPT ![g].pc = "done"]
    /\ op' = "pump_eof"
    /\ UNCHANGED << r2_gen, r2_main, stderr_buffer, ret, sunk >>
    /\ PumpFrame

\* _pump: with self._stderr_lock: self._stderr_buffer.append(cleaned)
\* (radare2_subprocess.py:209-210)
PumpAppend(g) ==
    /\ g \in 1..Len(pumps)
    /\ pumps[g].pc = "append"
    /\ LET chunk == [gen |-> g, n |-> pumps[g].read]
       IN  /\ stderr_buffer' = Append(stderr_buffer, chunk)
           /\ sunk' = Append(sunk, [sink |-> "stderr", chunk |-> chunk,
                                    current |-> g = r2_gen])
    /\ pumps' = [pumps EXCEPT ![g].pc = "read"]
    /\ op' = "pump_append"
    /\ UNCHANGED << r2_gen, r2_main, ret >>
    /\ PumpFrame

\* run_command: leading = self._collect_side_output(), the drain under the
\* lock (radare2_subprocess.py:142, 223-231)
CollectLeading ==
    /\ r2_main.pc = "idle"
    /\ Len(ret) < MaxCommands
    /\ r2_main' = [pc |-> "execute", leading |-> stderr_buffer]
    /\ stderr_buffer' = << >>
    /\ op' = "leading"
    /\ UNCHANGED << r2_gen, pumps, ret, sunk >>
    /\ PumpFrame

\* run_command: out = self._execute(part) returns, or raises 'Process
\* terminated unexpectedly' (radare2_subprocess.py:143-145)
Execute(died) ==
    /\ r2_main.pc = "execute"
    /\ died => r2_gen < MaxChildren
    /\ r2_main' = [r2_main EXCEPT !.pc = IF died THEN "failed" ELSE "trailing"]
    /\ op' = "execute"
    /\ UNCHANGED << r2_gen, pumps, stderr_buffer, ret, sunk >>
    /\ PumpFrame

\* run_command: trailing = self._collect_side_output() and the merge into
\* the response of this part (radare2_subprocess.py:146-150, 160-164)
CollectTrailing ==
    /\ r2_main.pc \in { "trailing", "failed" }
    /\ ret' = Append(ret, [child |-> r2_gen,
                           merged |-> r2_main.leading \o stderr_buffer,
                           error |-> r2_main.pc = "failed"])
    /\ stderr_buffer' = << >>
    /\ r2_main' = [pc |-> IF r2_main.pc = "failed" THEN "restart" ELSE "idle",
                   leading |-> << >>]
    /\ op' = "trailing"
    /\ UNCHANGED << r2_gen, pumps, sunk >>
    /\ PumpFrame

\* run_command after the child died: self._r2 = None, initialize_session()
\* opens a new child and _attach_stderr_reader clears the deque and starts
\* a new _pump (radare2_subprocess.py:151-154, 188-221)
Reattach ==
    /\ r2_main.pc = "restart"
    /\ r2_gen' = r2_gen + 1
    /\ stderr_buffer' = << >>
    /\ pumps' = Append(pumps, NewPump)
    /\ r2_main' = [pc |-> "idle", leading |-> << >>]
    /\ op' = "restart"
    /\ UNCHANGED << ret, sunk >>
    /\ PumpFrame

PumpNext ==
    \/ \E g \in 1..MaxChildren, blank \in BOOLEAN : PumpRead(g, blank)
    \/ \E g \in 1..MaxChildren : PumpEof(g)
    \/ \E g \in 1..MaxChildren : PumpAppend(g)
    \/ CollectLeading
    \/ \E died \in BOOLEAN : Execute(died)
    \/ CollectTrailing
    \/ Reattach

PumpSpec == PumpInit /\ [][PumpNext]_vars


(***************************************************************************)
(* Properties of ask().  A step with op' = "ask" is one call of ask(arg');  *)
(* unprimed variables are the session before the call, primed ones the     *)
(* session after it together with what the call did (ret', calls', ran',   *)
(* guards').                                                               *)
(***************************************************************************)
Last(seq) == seq[Len(seq)]

\* the last n segments of what ask() returned
RetTail(r, n) == LastN(r, n)

\* the confirmation prompt for command, as the tail of a returned text
ConfirmationFor(command, colors) ==
    << "Proposed debugger command:", _prefix_dbg_echo(command, BackendName, colors), RUN_IT >>

\* the replies that confirm a pending command
YesReplies == { "y", "yes" }
AutoReplies == { "a", "auto", "auto yes", "auto-yes" }

\* the last provider call of the ask answered with a <cmd> tag
LastReplyProposes(cs) ==
    /\ cs # << >>
    /\ Last(cs).kind = "turn"
    /\ ~Last(cs).outcome.raised
    /\ FirstCmd(Last(cs).outcome.answer) # None

\* C1: while auto_accept_commands is false, an ask() call runs a debugger
\* command only when it is the y/yes/a/auto/auto yes/auto-yes reply to a
\* pending confirmation; the command it then runs first is exactly the stored
\* one, and a y/yes reply runs it once and nothing else; a provider reply
\* with <cmd>X</cmd> only stores X in pending_command and returns the
\* confirmation prompt for X.
C1_ManualGate ==
    [][ (op' = "ask" /\ ~auto_accept_commands) =>
          LET choice == Choice(arg')
              confirms == Truthy(pending_command) /\ choice \in YesReplies \cup AutoReplies
          IN  /\ ~confirms => ran' = << >>
              /\ confirms => /\ ran' # << >>
                             /\ Head(ran') = pending_command[1]
              /\ (confirms /\ choice \in YesReplies) => ran' = << pending_command[1] >>
              /\ (~auto_accept_commands' /\ LastReplyProposes(calls')) =>
                    LET X == FirstCmd(Last(calls').outcome.answer)[1]
                    IN  /\ pending_command' = Some(X)
                        /\ RetTail(ret', 3) = ConfirmationFor(X, colors_enabled')
      ]_vars

\* a manual-mode ask("YES ") that ran the stored command bt once
C1_Witness ==
    /\ op = "ask"
    /\ ~auto_accept_commands
    /\ Choice(arg) \in YesReplies
    /\ ran = << "bt" >>

\* C2: with a command pending, any reply other than y/yes/a/auto/auto yes/
\* auto-yes (the empty reply included) returns "Command skipped.", unsets
\* pending_command, records no attempt, sends the backend no command, does
\* not call the provider and leaves chatlog and last_output unchanged.
C2_SkipFrame ==
    [][ (op' = "ask" /\ Truthy(pending_command)
         /\ Choice(arg') \notin YesReplies \cup AutoReplies) =>
          /\ ret' = << SKIPPED >>
          /\ pending_command' = None
          /\ attempts' = attempts
          /\ ran' = << >>
          /\ calls' = << >>
          /\ chatlog' = chatlog
          /\ last_output' = last_output
      ]_vars

\* the empty reply skipped a pending command
C2_Witness ==
    /\ op = "ask"
    /\ arg = ""
    /\ ret = << SKIPPED >>
    /\ pending_command = None


\* C3: with a command pending in manual mode and the reply a / auto /
\* auto yes / auto-yes, when ask() returns auto_accept_commands is true,
\* auto_rounds_remaining has been reset from config.auto_round_limit (64 by
\* default), the pending command has been executed, and the returned text
\* begins with "Auto-accept enabled for this session.".
C3_AutoReplyResetsRounds ==
    [][ (op' = "ask" /\ ~auto_accept_commands /\ Truthy(pending_command)
         /\ Choice(arg') \in AutoReplies) =>
          /\ auto_accept_commands'
          /\ auto_rounds_remaining' = Some(resolve_auto_round_limit(config))
          /\ ran' # << >>
          /\ Head(ran') = pending_command[1]
          /\ ret' # << >>
          /\ Head(ret') = AUTO_PREFIX
      ]_vars

\* C4: each command executed in auto mode takes exactly 1 off
\* auto_rounds_remaining, and when the countdown reaches zero auto mode is
\* disabled; with auto_rounds_remaining = 1 a reply carrying a <cmd> tag
\* executes exactly one command and leaves auto mode off.
C4_RoundsCountDown ==
    [][ (op' = "ask" /\ auto_accept_commands /\ auto_rounds_remaining # None
         /\ ran' # << >>) =>
          LET n == auto_rounds_remaining[1]
              k == Len(ran')
          IN  /\ k <= n
              /\ k < n => auto_rounds_remaining' = Some(n - k)
              /\ k = n => ~auto_accept_commands'
      ]_vars

\* C5: a single ask() call executes at most as many debugger commands as the
\* round budget in force (config.auto_round_limit, 64 by default).
C5_BoundedByBudget ==
    op = "ask" => Len(ran) <= resolve_auto_round_limit(config)

\* C6: pending_command is set only if the most recent ask() returned a
\* confirmation prompt for exactly that command, and the next ask() clears it
\* before doing anything else: after that ask it is unset, or it is the
\* command a provider reply of that same ask proposed.
C6_PendingOnlyWhileAwaiting ==
    /\ [](Truthy(pending_command) =>
            /\ op # "init"
            /\ RetTail(ret, 3) = ConfirmationFor(pending_command[1], colors_enabled))
    /\ [][ (op' = "ask" /\ Truthy(pending_command)) =>
             \/ pending_command' = None
             \/ /\ LastReplyProposes(calls')
                /\ pending_command' = FirstCmd(Last(calls').outcome.answer)
                /\ ran' = << pending_command[1] >>
         ]_vars

\* a confirmation for bt is awaited
C6_Witness ==
    /\ op = "ask"
    /\ pending_command = Some("bt")
    /\ RetTail(ret, 3) = ConfirmationFor("bt", colors_enabled)


\* the texts that answer the overflow prompt
SummarizeReplies == { "summarize and new session", "summarise and new session" }
NewSessionReplies == { "new session", "start new session", "new" }

\* the limit in force: prompt_config's max_context_chars, 16000 without one
ContextLimit ==
    IF max_context_chars # None THEN max_context_chars[1] ELSE DEFAULT_MAX_CONTEXT_CHARS

\* the user turn of the last ask() ran into the overflow guard: the guard
\* triggered on its first evaluation, before any command was run
TurnOverflowed == Len(guards) = 1 /\ guards[1].hit /\ ran = << >>

\* what every evaluation of the overflow guard in an ask() satisfies: the
\* first one measures the joined chatlog plus the new user line, and each
\* triggers exactly when its length exceeds the limit
GuardIffOverLimit ==
    /\ (guards' # << >> /\ ~Truthy(pending_command)) =>
         guards'[1].len = JoinedLen(Append(LineTexts(chatlog), "User: " \o Strip(arg')))
    /\ \A i \in 1..Len(guards') :
         guards'[i].hit <=> guards'[i].len > ContextLimit

\* C7 as stated: the overflow guard triggers iff the length of the joined
\* chatlog plus the new user line exceeds max_context_chars, and whenever it
\* triggers the provider is not called for that turn.
C7_NoProviderCallOnOverflow ==
    [][ op' = "ask" =>
          /\ GuardIffOverLimit
          /\ \A i \in 1..Len(guards') :
               guards'[i].hit => Len(calls') = guards'[i].calls_before
      ]_vars

\* C7, amended: the overflow guard triggers iff the length of the joined
\* chatlog plus the new user line exceeds max_context_chars, and whenever it
\* triggers the provider is not given that turn: the only provider call made
\* after the guard triggered is the one summarisation request, made when the
\* user text is "summarize and new session".
C7_OverflowGuard ==
    [][ op' = "ask" =>
          /\ GuardIffOverLimit
          /\ \A i \in 1..Len(guards') :
               guards'[i].hit =>
                 /\ Len(calls') <= guards'[i].calls_before + 1
                 /\ \A j \in (guards'[i].calls_before + 1)..Len(calls') :
                      /\ calls'[j].kind = "summarize"
                      /\ Choice(arg') \in SummarizeReplies
      ]_vars

\* the guard triggered and the one call made after it is the summarisation
C7_Witness ==
    /\ op = "ask"
    /\ TurnOverflowed
    /\ guards[1].len > ContextLimit
    /\ Len(calls) = 1
    /\ calls[1].kind = "summarize"

\* the summary the "summarize and new session" branch works with: what the
\* provider returned, or the local summary of the old session when it raised
SummaryUsed == 
    IF calls'[1].outcome.raised THEN summary(Pack) ELSE calls'[1].outcome.lines

\* what "summarize and new session" does apart from seeding the facts
SummarizeRotates ==
    /\ Len(calls') = 1
    /\ calls'[1].kind = "summarize"
    /\ calls'[1].chat = LastN(LineTexts(chatlog), SUMMARY_CHAT_TAIL)
    /\ calls'[1].attempts = LastN(attempts, RECENT_ATTEMPTS)
    /\ session_id' # session_id
    /\ chatlog' = << >>
    /\ attempts' = << >>
    /\ last_output' = ""
    /\ ret' = << "Started a new session: " \o UuidStr(session_id'),
                 "Here is a brief summary of the previous session for reference:" >>
              \o (IF SummaryUsed = << >> THEN << "" >> ELSE SummaryUsed)

C9_NewSession ==
    [][ (op' = "ask" /\ TurnOverflowed' /\ Choice(arg') \in NewSessionReplies) =>
          /\ calls' = << >>
          /\ session_id' # session_id
          /\ chatlog' = << >>
          /\ attempts' = << >>
          /\ facts' = << >>
          /\ last_output' = ""
          /\ ret' = << "Started a fresh session: " \o UuidStr(session_id') >>
      ]_vars

\* a fresh session started from the overflow prompt
C9_Witness ==
    /\ op = "ask"
    /\ TurnOverflowed
    /\ Choice(arg) \in NewSessionReplies
    /\ session_id = 1
    /\ facts = << >>
    /\ ret = << "Started a fresh session: " \o UuidStr(1) >>

\* overflow with a text that is neither choice: the overflow prompt comes
\* back and the session is as it was
OverflowLeavesSession ==
    (op' = "ask" /\ TurnOverflowed'
     /\ Choice(arg') \notin SummarizeReplies \cup NewSessionReplies) =>
       /\ ret' = << OVERFLOW_PROMPT >>
       /\ calls' = << >>
       /\ ran' = << >>
       /\ UNCHANGED << chatlog, attempts, facts, last_output, session_id, pending_command >>

\* the last ask() was a user turn answered with the overflow prompt
GotOverflowPrompt == op = "ask" /\ TurnOverflowed /\ ret = << OVERFLOW_PROMPT >>

\* C10 as stated: with the overflow guard triggered and a text that is
\* neither choice, ask() returns the overflow prompt and leaves chatlog,
\* attempts, facts, last_output, session_id and pending_command unchanged, so
\* every later ordinary user turn also gets the overflow prompt.
C10_EveryLaterTurnOverflows ==
    [][ /\ OverflowLeavesSession
        /\ (GotOverflowPrompt /\ op' = "ask"
            /\ Choice(arg') \notin SummarizeReplies \cup NewSessionReplies) =>
              ret' = << OVERFLOW_PROMPT >>
      ]_vars

\* C10, amended: the same frame, and a later ordinary user turn gets the
\* overflow prompt again when its text is at least as long as the one that
\* got it before.
C10_OverflowPromptFrame ==
    [][ /\ OverflowLeavesSession
        /\ (GotOverflowPrompt /\ op' = "ask"
            /\ Choice(arg') \notin SummarizeReplies \cup NewSessionReplies
            /\ Len(Strip(arg')) >= Len(Strip(arg))) =>
              ret' = << OVERFLOW_PROMPT >>
      ]_vars

\* the empty text got the overflow prompt
C10_Witness ==
    /\ GotOverflowPrompt
    /\ arg = ""
    /\ chatlog # << >>

\* log is base followed by further lines
Extends(log, base) ==
    /\ Len(log) >= Len(base)
    /\ SubSeq(log, 1, Len(base)) = base

\* the lines a call appended to the chatlog
AddedLines == SubSeq(chatlog', Len(chatlog) + 1, Len(chatlog'))

\* how many lines of log are '(executed)' entries, how many are not
ExecutedCount(log) == Cardinality({ i \in 1..Len(log) : log[i].k = "executed" })
SpokenCount(log) == Cardinality({ i \in 1..Len(log) : log[i].k # "executed" })

\* the provider replies an operation received for its turns
RepliesReceived(cs) ==
    Cardinality({ i \in 1..Len(cs) : cs[i].kind = "turn" /\ ~cs[i].outcome.raised })

\* C11 as stated: over one ask() call the chatlog does not get shorter, and
\* the lines the call adds are at most two (one user line, one assistant
\* line) plus optional '(executed)' entries.
C11_AtMostTwoLinesPerAsk ==
    [][ op' = "ask" =>
          /\ Len(chatlog') >= Len(chatlog)
          /\ SpokenCount(AddedLines) <= 2
      ]_vars

\* C11, amended: an ask() call that does not start a new session leaves the
\* old chatlog in place and adds, for each provider reply it received, one
\* user line and one assistant line, plus one '(executed)' entry for each
\* command it ran; an ask() call that starts a new session empties the
\* chatlog.
C11_ChatlogGrowth ==
    [][ op' = "ask" =>
          IF session_id' # session_id
          THEN chatlog' = << >>
          ELSE /\ Extends(chatlog', chatlog)
               /\ SpokenCount(AddedLines) = 2 * RepliesReceived(calls')
               /\ ExecutedCount(AddedLines) = Len(ran')
               /\ \A i \in 1..Len(AddedLines) :
                    AddedLines[i].k \in { "user", "assistant", "executed" }
      ]_vars

\* a confirmed command: the '(executed)' entry, then the followup exchange
C11_Witness ==
    /\ op = "ask"
    /\ Choice(arg) \in YesReplies
    /\ ran = << "bt" >>
    /\ Len(chatlog) = 5
    /\ chatlog[3].k = "executed"
    /\ chatlog[4].k = "user"
    /\ chatlog[5].k = "assistant"

(***************************************************************************)
(* C12                                                                     *)
(***************************************************************************)
\* line i of the log is the reply that proposed the command of line i + 1
ProposedJustBefore(log, i) ==
    /\ i > 1
    /\ log[i - 1].k = "assistant"
    /\ log[i - 1].cmd = log[i].cmd

\* C12 as stated: every "Assistant: (executed) <cmd>" line of the chatlog
\* comes right after the "Assistant: ..." reply that proposed <cmd>, in the
\* agent loop as in the orchestrator's flows
C12_EveryExecutedLineProposed ==
    \A i \in 1..Len(chatlog) :
        chatlog[i].k = "executed" => ProposedJustBefore(chatlog, i)

\* C12 amended: every "(executed)" line comes right after the reply that
\* proposed its command, except the lines the agent records for the setup
\* commands of _prepare_debugger, which open the agent's chatlog with no reply
\* before them
C12_ExecutedLineProposedOrSetup ==
    \A i \in 1..Len(chatlog) :
        chatlog[i].k = "executed" =>
            \/ ProposedJustBefore(chatlog, i)
            \/ /\ agent_pc # "off"
               /\ i <= Len(PrepareCommands(request))
               /\ chatlog[i].cmd = Some(PrepareCommands(request)[i])

\* the agent recorded a setup command and then a command a reply proposed
C12_Witness ==
    /\ agent_pc = "loop"
    /\ Len(chatlog) = 3
    /\ chatlog[1].k = "executed"
    /\ chatlog[1].cmd = Some("file ./a.out")
    /\ chatlog[2].k = "assistant"
    /\ chatlog[3].k = "executed"
    /\ chatlog[3].cmd = Some("bt")

(***************************************************************************)
(* C13                                                                     *)
(***************************************************************************)
\* where the first <cmd> element of a reply stands, 0 when it has none
FirstTagAt(answer) ==
    IF \E i \in 1..Len(answer) : answer[i].tag
    THEN CHOOSE i \in 1..Len(answer) :
             answer[i].tag /\ \A j \in 1..(i - 1) : ~answer[j].tag
    ELSE 0

\* the replies the provider gave during the operation that carry a <cmd> tag
TaggedReplies(cs) ==
    SelectSeq(cs, LAMBDA c : /\ c.kind \in { "turn", "agent" }
                             /\ ~c.outcome.raised
                             /\ FirstTagAt(c.outcome.answer) > 0)

\* the stripped content of the first <cmd> element of each of them
FirstCommands(cs) ==
    LET tagged == TaggedReplies(cs)
    IN  [ i \in 1..Len(tagged) |->
            Strip(tagged[i].outcome.answer[FirstTagAt(tagged[i].outcome.answer)].s) ]

\* C13: of every model reply only the content of the first <cmd>...</cmd>
\* element is used.  In an ask() the commands run are the confirmed pending
\* command, if any, followed in auto mode by the first command of each tagged
\* reply, one per reply; in manual mode a tagged reply stores its first
\* command in pending_command and runs nothing, and without a tagged reply
\* nothing is run and no command is pending.  An agent step runs the first
\* command of its reply, or nothing when the reply has no tag.
C13_FirstCmdOnly ==
    [][ /\ op' = "ask" =>
             LET confirmed == IF /\ Truthy(pending_command)
                                 /\ Choice(arg') \in YesReplies \cup AutoReplies
                              THEN << pending_command[1] >> ELSE << >>
                 firsts == FirstCommands(calls')
             IN  /\ auto_accept_commands' => ran' = confirmed \o firsts
                 /\ ~auto_accept_commands' =>
                       /\ ran' = confirmed
                       /\ Len(firsts) <= 1
                       /\ IF firsts # << >>
                          THEN pending_command' = Some(firsts[1])
                          ELSE ~Truthy(pending_command')
        /\ op' = "step" =>
             LET firsts == FirstCommands(calls')
             IN  ran' = IF firsts # << >> /\ firsts[1] # "" THEN << firsts[1] >> ELSE << >>
      ]_vars

\* an auto-mode ask() got a reply with two <cmd> elements, ran the first and
\* then got a reply without one
C13_Witness ==
    /\ op = "ask"
    /\ auto_accept_commands
    /\ Len(calls) = 2
    /\ calls[1].kind = "turn"
    /\ ~calls[1].outcome.raised
    /\ calls[1].outcome.answer = AnsTwoCmds
    /\ ~calls[2].outcome.raised
    /\ calls[2].outcome.answer = AnsFinal
    /\ ran = << "bt" >>

(***************************************************************************)
(* C14                                                                     *)
(***************************************************************************)
\* C14 as stated: an ask() whose text is empty after strip returns an empty
\* reply and alters nothing: no provider call, no chatlog or facts append, no
\* change to pending_command
C14_EmptyAskIsNoOp ==
    [][ (op' = "ask" /\ Strip(arg') = "") =>
          /\ ret' = << >>
          /\ calls' = << >>
          /\ chatlog' = chatlog
          /\ facts' = facts
          /\ pending_command' = pending_command
      ]_vars

(***************************************************************************)
(* C15 .. C19: the backends                                                *)
(***************************************************************************)
\* the backends that have an exit set and restart on it
ExitBackends == { "gdb", "delve", "radare2" }
\* the backends driven through a pseudo-terminal that C18 names
PtyBackends == { "gdb", "delve", "lldb" }

\* some output of the returned text starts with "[<name> <kind>] <part>:"
HasMarker(r, name, kind, part) ==
    \E i \in 1..Len(r) : \E d \in { TIMEOUT_TEXT, EOF_TEXT, ERROR_TEXT, DIED_TEXT,
                                    NOT_RUNNING_TEXT, InitDetail("spawn") } :
        r[i] = "[" \o name \o " " \o kind \o "] " \o part \o ": " \o d

\* some output of the returned text is a "[<name> closed]" marker
HasClosedMarker(r, name) ==
    \E i \in 1..Len(r) :
        \/ r[i] = "[" \o name \o " closed] session already terminated"
        \/ \E p \in { "bt", "Q", "q", "up", "" } : HasMarker(<< r[i] >>, name, "closed", p)

\* the last restart the backend attempted failed
RestartFailed == child = "none" \/ (inits # << >> /\ inits[Len(inits)] # "ok")

\* C15 as stated: run_command never raises; in every backend state (ready,
\* child dead, closed after a failed restart) and for every input it returns
\* a string
C15_RunCommandNeverRaises == op = "run_command" => ~raised

\* C16 as stated: an exit command triggers the restart exactly once per
\* run_command; once that restart has failed the backend stays closed and
\* every later run_command returns the "[<name> closed]" marker
C16_RestartOnceThenClosedMarker ==
    [][ (op' = "run_command" /\ backend_name[1] \in ExitBackends) =>
          LET exits == { i \in 1..Len(calls') : calls'[i].outcome = "exit" }
          IN  /\ Cardinality(exits) <= 1
              /\ exits # {} => Len(inits') >= 1
              /\ RestartFailed =>
                    /\ ~raised'
                    /\ HasClosedMarker(ret', backend_name[1])
                    /\ child' # "alive"
      ]_vars

\* where the first exit primitive of the input stands, 0 without one
FirstExitAt(parts) ==
    IF \E i \in 1..Len(parts) : Lower(parts[i]) \in { "quit", "exit", "q" }
    THEN CHOOSE i \in 1..Len(parts) :
             /\ Lower(parts[i]) \in { "quit", "exit", "q" }
             /\ \A j \in 1..(i - 1) : Lower(parts[j]) \notin { "quit", "exit", "q" }
    ELSE 0

\* C17 as stated: for every backend, a ready backend given an input with an
\* exit primitive sends the primitives before it in order, then invokes the
\* exit and restart flow and sends no later primitive; when the restart
\* succeeds the result carries "[<name>] session restarted; ready for
\* commands" and the backend is ready again
C17_ExitStopsAndRestarts ==
    [][ (op' = "run_command" /\ child = "alive"
         /\ FirstExitAt(_split_commands(arg')) > 0) =>
          LET parts == _split_commands(arg')
              k == FirstExitAt(parts)
              reached == \A i \in 1..Len(calls') : calls'[i].outcome \notin { "eof", "died" }
          IN  /\ Len(ran') <= k
              /\ ran' = SubSeq(parts, 1, Len(ran'))
              /\ reached =>
                    /\ Len(ran') = k
                    /\ Len(inits') >= 1
                    /\ inits'[Len(inits')] = "ok" =>
                          /\ ret' # << >>
                          /\ ret'[Len(ret')] = "[" \o backend_name[1]
                                                \o "] session restarted; ready for commands"
                          /\ child' = "alive"
      ]_vars

\* C18 as stated: in run_command of a PTY backend a primitive that times out
\* adds a "[<name> timeout]" marker and the next primitive is still sent, one
\* that hits EOF adds "[<name> eof]" and is the last one sent, and any other
\* exception adds "[<name> error]"
C18_FailureMarkers ==
    [][ (op' = "run_command" /\ backend_name[1] \in PtyBackends) =>
          LET name == backend_name[1]
              split == _split_commands(Strip(arg'))
              parts == IF split = << >> THEN << Strip(arg') >> ELSE split
          IN  \A i \in 1..Len(calls') :
                LET c == calls'[i]
                IN  /\ c.outcome = "timeout" =>
                          /\ HasMarker(ret', name, "timeout", c.part)
                          /\ (i < Len(parts) /\ Lower(parts[i + 1]) \notin { "quit", "exit", "q" })
                                => Len(calls') > i
                    /\ c.outcome = "eof" =>
                          /\ HasMarker(ret', name, "eof", c.part)
                          /\ i = Len(calls')
                    /\ c.outcome = "error" => HasMarker(ret', name, "error", c.part)
      ]_vars

\* C19 as stated: when the child dies during a command that is not an exit
\* command the backend re-initializes exactly once; on success the result
\* carries a restart marker and the backend is ready, on failure it carries
\* "[<name> closed] <cmd>: <detail>" and the backend is closed
C19_DeathReinitializesOnce ==
    [][ (op' = "run_command" /\ backend_name[1] \in { "gdb", "radare2" }
         /\ \E i \in 1..Len(calls') : calls'[i].outcome \in { "eof", "died" }) =>
          LET name == backend_name[1]
              died == CHOOSE i \in 1..Len(calls') : calls'[i].outcome \in { "eof", "died" }
              reinits == Len(inits')
                         - Cardinality({ i \in 1..Len(calls') : calls'[i].outcome = "exit" })
          IN  /\ reinits = 1
              /\ inits'[1] = "ok" =>
                    \E j \in 1..Len(ret') :
                        ret'[j] = "[" \o name \o "] session restarted; ready for commands"
              /\ inits'[1] # "ok" =>
                    /\ HasMarker(ret', name, "closed", calls'[died].part)
                    /\ child' # "alive"
      ]_vars

(***************************************************************************)
(* C20                                                                     *)
(***************************************************************************)
\* the chunks the operation pushed into one of the two sinks
SunkInto(s, which) ==
    LET mine == SelectSeq(s, LAMBDA e : e.sink = which)
    IN  [ i \in 1..Len(mine) |-> mine[i].chunk ]

\* the debugger outputs the operation produced: one per executed command, as
\* the attempts it recorded carry them (they are shorter than a snippet)
ProducedOutputs(atts, n) ==
    LET mine == LastN(atts, n)
    IN  [ i \in 1..Len(mine) |-> mine[i].output_snippet ]

\* the provider calls of the operation whose reply or error is shown as chat
\* text while auto-accept is on
ChatProduced(cs, auto) ==
    IF auto THEN Cardinality({ i \in 1..Len(cs) : cs[i].kind = "turn" }) ELSE 0

\* C20: every debugger output and every chat text an ask() produces is
\* delivered exactly once, to the sink when the sink takes it and to the
\* pending buffer otherwise, never to both: with a working sink the buffer
\* stays empty, with no sink or a raising sink nothing counts as pushed and
\* the buffer holds each chunk once, in order
C20_SinkOrBufferOnce ==
    [][ op' = "ask" =>
          LET outs == ProducedOutputs(attempts', Len(ran'))
              dsunk == SunkInto(sunk', "debugger")
              csunk == SunkInto(sunk', "chat")
          IN  /\ Len(outs) = Len(ran')
              /\ IF debugger_output_sink = "ok"
                 THEN dsunk = outs /\ pending_outputs' = << >>
                 ELSE dsunk = << >> /\ pending_outputs' = outs
              /\ IF chat_output_sink = "ok"
                 THEN pending_chat' = << >>
                 ELSE csunk = << >>
              /\ Len(csunk) + Len(pending_chat') = ChatProduced(calls', auto_accept_commands')
      ]_vars

\* an auto-mode ask() with a raising sink ran bt: its output and the chat
\* texts went to the buffers only
C20_Witness ==
    /\ op = "ask"
    /\ debugger_output_sink = "raises"
    /\ ran = << "bt" >>
    /\ Len(pending_outputs) = 1
    /\ Len(pending_chat) = 2
    /\ sunk = << >>

(***************************************************************************)
(* Properties of the web front-end.                                        *)
(***************************************************************************)
InFlight(sid, kind) == { w \in web_workers : w.sid = sid /\ w.kind = kind }

\* C21: per session at most one debugger command and at most one LLM call
\* are running on worker threads at any time.
C21_OneInFlightPerSession ==
    \A sid \in web_sessions :
       /\ Cardinality(InFlight(sid, "command")) <= 1
       /\ Cardinality(InFlight(sid, "chat")) <= 1

\* the sessions a close_session step removed
ClosedNow == web_sessions \ web_sessions'

\* C23: when close_session(id) returns, the session is gone from the
\* manager and the debugger process of its backend is no longer alive.
C23_CloseKillsChild ==
    [][ op' = "close_session" =>
          \A sid \in ClosedNow :
             /\ sid \notin web_sessions'
             /\ web_backends'[sid].child # "alive" ]_vars

(***************************************************************************)
(* Properties of the provider registry.  calls is the sequence of the      *)
(* calls that have returned, in the order they returned.                   *)
(***************************************************************************)
AllIdle == \A t \in DOMAIN reg_threads : reg_threads[t].pc = "idle"

\* the calls of add_provider that returned an entry
Added == { i \in 1..Len(calls) : calls[i].op = "add_provider" /\ calls[i].result # << >> }

\* C22: whatever the interleaving of two mutating calls, once they have
\* returned the file and the registry hold the effect of both: a provider
\* that add_provider added is in the file and in the registry.
C22_NoLostUpdate ==
    (AllIdle /\ \A i \in 1..Len(calls) : calls[i].op # "reload") =>
      \A i \in Added :
         /\ calls[i].name \in DOMAIN cfg_file
         /\ calls[i].name \in DOMAIN registry

\* add_provider(name, ...) returned an entry and reload() was the next call
AddThenReload ==
    /\ Len(calls) >= 2
    /\ AllIdle
    /\ calls[Len(calls)].op = "reload"
    /\ (Len(calls) - 1) \in Added

\* C29: after add_provider(name, ...) followed by reload(), the file holds
\* name with exactly the entry add_provider returned, and the registry
\* built from the file holds name with the same value in each of its fields.
C29_AddThenReloadPreserves ==
    AddThenReload =>
      LET name == calls[Len(calls) - 1].name
          entry == calls[Len(calls) - 1].result[1]
      IN /\ name \in DOMAIN cfg_file
         /\ cfg_file[name] = entry
         /\ name \in DOMAIN registry
         /\ \A f \in DOMAIN entry : registry[name][f] = entry[f]

C29_Witness ==
    /\ AddThenReload
    /\ calls[Len(calls) - 1].name = "lab"
    /\ cfg_file["lab"].path = "/v1/chat/completions"
    /\ registry["lab"].default_model = "m1"

(***************************************************************************)
(* Properties of the agent loop.  Every reply the provider returned is an  *)
(* assistant line of the chatlog; the executed lines after the setup       *)
(* commands are the commands the loop ran.                                 *)
(***************************************************************************)
LoopReplies == SpokenCount(chatlog)
LoopCommands == ExecutedCount(chatlog) - Len(PrepareCommands(request))

\* C24: a run makes at most request.max_steps provider calls and executes
\* at most request.max_steps proposed commands, and the fallback report is
\* returned only when request.max_steps steps were made.
C24_BoundedByRequestedSteps ==
    agent_pc \in { "loop", "done", "raised" } =>
       /\ LoopReplies <= request.max_steps
       /\ LoopCommands <= request.max_steps
       /\ (final_report = Some(FALLBACK_REPORT) => LoopReplies = request.max_steps)

\* C25: in an agent step, a reply that is not empty and has no <cmd> tag ends
\* the loop: it becomes the final report and no command is run, in that step
\* or later.  An empty reply runs nothing and reports nothing, and the loop
\* goes on with the next step.
C25_FinalReportEndsLoop ==
    [][ /\ (op' = "step" /\ ~calls'[1].outcome.raised) =>
             LET reply == calls'[1].outcome.answer
                 text == Strip(RawAnswer(reply))
             IN  /\ (text # "" /\ FirstTagAt(reply) = 0) =>
                       /\ agent_pc' = "done"
                       /\ final_report' = Some(text)
                       /\ ran' = << >>
                       /\ attempts' = attempts
                 /\ text = "" =>
                       /\ agent_pc' = "loop"
                       /\ final_report' = None
                       /\ step' = step + 1
                       /\ ran' = << >>
                       /\ attempts' = attempts
        /\ agent_pc = "done" =>
             /\ attempts' = attempts
             /\ final_report' = final_report
      ]_vars

\* an empty reply was passed over and a later reply without a tag became the
\* final report
C25_Witness ==
    /\ op = "step"
    /\ agent_pc = "done"
    /\ final_report = Some("Done.")
    /\ step = 2
    /\ attempts = << >>
    /\ \E i \in 1..Len(chatlog) : chatlog[i].k = "assistant" /\ chatlog[i].s = "Assistant: "

\* the last operation set a parameter whose canonical name ends in one of
\* the integer names, from a string that float() parses
IntegerSet ==
    /\ op = "set"
    /\ Last_(SplitDots(ret[1].canonical)) \in { "max_tokens", "top_k", "mirostat" }
    /\ ParseFloat(arg[2]) # None

\* C27: for a parameter whose canonical name ends in max_tokens, top_k or
\* mirostat, every numeric string is coerced to the integer that parsing it
\* as a float and truncating gives ('1' gives 1, '0' gives 0, '2.7' gives 2).
C27_NumericStringsTruncate ==
    IntegerSet =>
        ret[1].value = Some(Value("int", IntOf(ParseFloat(arg[2])[1]), "", << >>))

\* C28: parameter set and clear are idempotent on the session config: from
\* every store the session can hold, set(p, v) twice leaves what set(p, v)
\* once leaves, and clear(p) twice leaves what clear(p) once leaves.
C28_SetClearIdempotent ==
    /\ \A p \in ParamNames, v \in RawValues :
          params_set(params_set(params, p, v), p, v) = params_set(params, p, v)
    /\ \A p \in ParamNames :
          params_clear(params_clear(params, p), p) = params_clear(params, p)

\* a parameter was set over a store that already held another one, and the
\* store still holds a parameter that a clear would remove
C28_Witness ==
    /\ op = "set"
    /\ Len(params) = 2
    /\ params[2].k = ret[1].canonical
    /\ params_clear(params, arg[1]) # params

\* the keys a.b.c of a canonical name, and what a body holds there
BodyPath(canonical) == SelectSeq(SplitDots(canonical), LAMBDA segment : segment # "")
At(b, path) == IF path \in DOMAIN b THEN Some(b[path]) ELSE None

\* b[a][b][c] exists, every map on the way to it being a map
Nested(b, path) ==
    /\ path \in DOMAIN b
    /\ \A k \in 1..(Len(path) - 1) :
          SubSeq(path, 1, k) \in DOMAIN b /\ b[SubSeq(path, 1, k)].t = "dict"

\* the store holds another parameter at, above or below the path of canonical
Overlaps(store, canonical) ==
    \E i \in 1..Len(store) :
        /\ store[i].k # canonical
        /\ \/ IsPrefix(BodyPath(store[i].k), BodyPath(canonical))
           \/ IsPrefix(BodyPath(canonical), BodyPath(store[i].k))

\* C26 as stated: for every parameter p and value v that parses, setting p
\* and building the request gives a body with body[a][b][c] == coerce(v),
\* a.b.c being the canonical form of p.
C26_AppliedAtCanonicalPath ==
    [][ (op = "set" /\ ~ret[1].raised /\ op' = "request") =>
            /\ Nested(body', BodyPath(ret[1].canonical))
            /\ At(body', BodyPath(ret[1].canonical)) = ret[1].value ]_vars

\* C26, amended: a set whose value does not coerce to None stores coerce(v)
\* under the canonical name; a request carries every stored parameter that
\* no other stored parameter overlaps at body[a][b][c], under maps created
\* on the way; and a set whose value coerces to None removes the override,
\* so that the body holds at a.b.c what it holds with no override.
C26_AppliedUnlessClearedOrOverlapped ==
    [][ /\ (op = "set" /\ ~ret[1].raised /\ ~ret[1].cleared) =>
              \E i \in 1..Len(params) :
                  params[i].k = ret[1].canonical /\ Some(params[i].v) = ret[1].value
        /\ op' = "request" =>
              \A i \in 1..Len(params) :
                  ~Overlaps(params, params[i].k) =>
                      /\ Nested(body', BodyPath(params[i].k))
                      /\ body'[BodyPath(params[i].k)] = params[i].v
        /\ (op = "set" /\ ret[1].cleared /\ op' = "request"
                /\ ~Overlaps(params, ret[1].canonical)) =>
              /\ \A i \in 1..Len(params) : params[i].k # ret[1].canonical
              /\ At(body', BodyPath(ret[1].canonical))
                     = At(BaseBody, BodyPath(ret[1].canonical)) ]_vars

\* deepseek's enable_thinking was set to 'true' and the request built:
\* body['thinking']['enabled'] is True
C26_Witness ==
    /\ op = "request"
    /\ \E i \in 1..Len(params) :
          params[i] = [k |-> "thinking.enabled", v |-> Value("bool", 1, "", << >>)]
    /\ Nested(body, << "thinking", "enabled" >>)
    /\ body[<< "thinking", "enabled" >>] = Value("bool", 1, "", << >>)

\* C30: for each setting of the OpenAI-compatible client (base_url, model,
\* path, headers, api_key), the value used is the one from the first source
\* that defines it in the order: session config, environment variable,
\* registry entry's defaults, built-in per-vendor default.
C30_FirstSourceWins ==
    op = "get_cfg" =>
        LET name == arg[1]
            sc == arg[2]
            env == arg[3]
            reg == arg[4]
            First(a, b, c, d) == Or(a, Or(b, Or(c, d)))
        IN  /\ ret[1].base_url = First(sc.base_url, env.base_url, reg.base_url, BuiltIn(name).base_url)
            /\ ret[1].model = First(sc.model, env.model, reg.default_model, BuiltIn(name).model)
            /\ ret[1].path = First(sc.path, env.path, reg.path,
                                   Or(BuiltIn(name).path, Some("/v1/chat/completions")))
            /\ ret[1].headers = First(sc.headers, env.headers, reg.headers, Some({}))
            /\ ret[1].api_key = First(sc.api_key, env.api_key, None, None)

\* C32: /auto on followed by /auto off restores auto_rounds_remaining to
\* null and auto_accept_commands to false, from any state in which auto mode
\* was off: while auto mode is off the budget is null, /auto on gives the
\* resolved limit, and the /auto off after it gives null again and takes
\* the auto_accept_commands key out of the config.
C32_AutoOnOffRestores ==
    /\ [](~auto_accept_commands => auto_rounds_remaining = None)
    /\ [][ /\ op' = "auto_on" =>
                 /\ ~auto_accept_commands /\ auto_accept_commands'
                 /\ auto_rounds_remaining' # None
           /\ op' = "auto_off" =>
                 /\ ~auto_accept_commands'
                 /\ auto_rounds_remaining' = None
                 /\ config'.auto_accept_commands = None ]_vars

\* /auto off has just undone an /auto on
C32_Witness ==
    /\ op = "auto_off"
    /\ ~auto_accept_commands
    /\ auto_rounds_remaining = None

\* C33: the auto-approve round limit resolved from config.auto_round_limit
\* is never below 1: a configured value below 1 is raised to the floor of 1,
\* and a missing value gives the default 64.
C33_FloorOfOne ==
    (op = "resolve" /\ arg.auto_rounds_limit = None) =>
        LET raw == arg.auto_round_limit
            limit == IF raw = None THEN None ELSE ParseInt(raw[1])
        IN  /\ ret[1] >= 1
            /\ raw = None => ret[1] = 64
            /\ (limit # None /\ limit[1] < 1) => ret[1] = 1
            /\ (limit # None /\ limit[1] >= 1) => ret[1] = limit[1]

(***************************************************************************)
(* C34                                                                     *)
(***************************************************************************)
\* what one statement of _execute_once wrote
WroteLastOutput == last_output' # last_output
WroteAttempt == attempts' # attempts
WroteChatlog == chatlog' # chatlog
Emitted == sunk' # sunk \/ pending_outputs' # pending_outputs

\* C34: each command the orchestrator executes updates the session in one
\* fixed order: last_output is assigned, then exactly one attempts entry
\* (cmd, first 160 characters of the output) is appended, then exactly one
\* '(executed)' chatlog entry, then the output is pushed to the sink if
\* present or else buffered in pending_outputs; no two of these happen at
\* once, so they are totally ordered.
C34_FixedUpdateOrder ==
    /\ [][ /\ Cardinality({ w \in { "last_output", "attempt", "chatlog", "emit" } :
                  \/ w = "last_output" /\ WroteLastOutput
                  \/ w = "attempt" /\ WroteAttempt
                  \/ w = "chatlog" /\ WroteChatlog
                  \/ w = "emit" /\ Emitted }) <= 1
           /\ WroteLastOutput => attempts = << >> /\ last_output' = ret[1].out
           /\ WroteAttempt =>
                 /\ last_output = ret[1].out
                 /\ attempts = << >>
                 /\ attempts' = << [cmd |-> arg[1], output_snippet |-> Prefix(ret[1].out, 160)] >>
                 /\ chatlog = << >>
           /\ WroteChatlog =>
                 /\ Len(attempts) = 1
                 /\ chatlog = << >>
                 /\ Len(chatlog') = 1
                 /\ chatlog'[1].k = "executed"
                 /\ chatlog'[1].cmd = Some(arg[1])
                 /\ sunk = << >> /\ pending_outputs = << >>
           /\ Emitted =>
                 /\ Len(chatlog) = 1
                 /\ IF debugger_output_sink = "ok"
                    THEN sunk' = << [sink |-> "debugger", chunk |-> last_output] >>
                         /\ pending_outputs' = << >>
                    ELSE sunk' = << >> /\ pending_outputs' = << last_output >> ]_vars
    /\ [](op = "return" =>
            /\ last_output = ret[1].out
            /\ Len(attempts) = 1
            /\ Len(chatlog) = 1
            /\ Len(sunk) + Len(pending_outputs) = 1)

\* a command whose output is longer than a snippet has gone through
\* _execute_once in a session without a sink
C34_Witness ==
    /\ op = "return"
    /\ arg[2] = LongText
    /\ debugger_output_sink = "none"
    /\ pending_outputs = << last_output >>
    /\ attempts[1].output_snippet # last_output

(***************************************************************************)
(* Properties of error handling in ask().                                  *)
(***************************************************************************)
\* the provider call of the operation that raised: always its last call
RaisedCall(cs) ==
    /\ cs # << >>
    /\ Last(cs).kind = "turn"
    /\ Last(cs).outcome.raised

\* the provider error text as the front-end receives it
ErrorText(colors) == color_text(PROVIDER_ERROR, "red", FALSE, colors)

LoggedExecution(log, command, out) ==
    \E i \in 1..Len(log) : log[i].k = "executed" /\ log[i].s = ExecutedLine(command, out).s

\* C36: a sink that raises while a chunk is pushed counts as no sink: ask()
\* returns, nothing is counted as pushed to that sink, and the chunk is in
\* the pending buffer: pending_outputs holds the whole output of every
\* command the ask() ran, in order, and pending_chat holds one text for
\* every chat text the ask() produced, none of them empty
C36_RaisingSinkFallsBack ==
    [][ op' = "ask" =>
          /\ debugger_output_sink = "raises" =>
               /\ SunkInto(sunk', "debugger") = << >>
               /\ Len(pending_outputs') = Len(ran')
               /\ \A i \in 1..Len(ran') :
                    LoggedExecution(chatlog', ran'[i], pending_outputs'[i])
          /\ chat_output_sink = "raises" =>
               /\ SunkInto(sunk', "chat") = << >>
               /\ Len(pending_chat') = ChatProduced(calls', auto_accept_commands')
               /\ \A i \in 1..Len(pending_chat') : pending_chat'[i] # ""
               /\ (auto_accept_commands' /\ RaisedCall(calls')) =>
                    Last(pending_chat') = ErrorText(colors_enabled)
      ]_vars

\* both sinks raise and an auto-mode ask() ran a command: its output and
\* the chat texts are in the pending buffers
C36_Witness ==
    /\ op = "ask"
    /\ debugger_output_sink = "raises"
    /\ chat_output_sink = "raises"
    /\ auto_accept_commands
    /\ Len(ran) = 1
    /\ pending_outputs = << last_output >>
    /\ pending_chat # << >>

(***************************************************************************)
(* Properties of the confirmation state.                                   *)
(***************************************************************************)
\* the last ask() returned a confirmation prompt and nothing but the
\* draining of the pending buffers has happened since
PromptShown ==
    /\ op \in { "ask", "drain" }
    /\ ret # << >>
    /\ Last(ret) = RUN_IT

\* the provider was given the user's text as a question
SentAsQuestion(cs, text) ==
    \E i \in 1..Len(cs) : cs[i].kind = "turn" /\ cs[i].question = Strip(text)

\* C39: whenever ask() has returned a confirmation prompt (with its
\* command_proposal event queued), pending_command holds the command the
\* prompt shows, and the next ask() is handled as the reply to it: its text
\* is not sent to the provider as a question, also when the <cmd> tag of
\* the reply was empty or whitespace-only
C39_PromptAwaitsConfirmation ==
    /\ [](PromptShown =>
            /\ pending_command # None
            /\ RetTail(ret, 3) = ConfirmationFor(pending_command[1], colors_enabled)
            /\ op = "ask" =>
                 \E i \in 1..Len(pending_chat_events) :
                    /\ pending_chat_events[i].type = "command_proposal"
                    /\ pending_chat_events[i].command = pending_command[1])
    /\ [][ (PromptShown /\ op' = "ask") => ~SentAsQuestion(calls', arg') ]_vars

\* C40: a debugger output that ask() placed in pending_outputs is not also
\* one of the segments of the text ask() returns
C40_BufferedNotReturned ==
    [][ op' = "ask" =>
          \A i \in 1..Len(pending_outputs') :
             \A j \in 1..Len(ret') : ret'[j] # pending_outputs'[i]
      ]_vars

(***************************************************************************)
(* Properties of empty input to the backends.                              *)
(***************************************************************************)
\* C38: for every backend, run_command on a text that is empty after
\* trimming returns the empty string (no exception, no output) and sends
\* nothing to the debugger process
C38_EmptyInputSendsNothing ==
    [][ (op' = "run_command" /\ Strip(arg') = "") =>
          /\ ~raised'
          /\ ret' = << >>
          /\ ran' = << >>
      ]_vars

(***************************************************************************)
(* Properties of API keys.                                                 *)
(***************************************************************************)
\* the API keys the session holds
HeldKeys ==
    { config[f][1] : f \in { g \in { "openrouter_api_key", "openai_http_api_key" } :
                               config[g] # None } }
    \cup (IF request # << >> /\ request.api_key # None THEN { request.api_key[1] } ELSE { })

\* C31: no piece of a text the system prints, logs or writes to a report is
\* an API key the session holds
C31_KeyNeverPrinted ==
    \A i \in 1..Len(ret) : ret[i] \notin HeldKeys

(***************************************************************************)
(* Properties of the radare2 stderr capture.                               *)
(***************************************************************************)
\* the places of the chunks merged into responses: << response, position >>
MergedAt == { << i, j >> \in (1..Len(ret)) \X (1..(2 * MaxChildren * MaxStderrChunks)) :
                j <= Len(ret[i].merged) }

\* chunk is in the deque, in the leading text of the running command or in
\* a response
Kept(chunk) ==
    \/ \E i \in 1..Len(stderr_buffer) : stderr_buffer[i] = chunk
    \/ \E i \in 1..Len(r2_main.leading) : r2_main.leading[i] = chunk
    \/ \E p \in MergedAt : ret[p[1]].merged[p[2]] = chunk

\* C37: under every interleaving of the pump threads and run_command, a
\* response holds only chunks of the child it was run on (none of a child
\* a restart has replaced), no chunk is in two responses or twice in one,
\* and every chunk appended while its child was the current one is still
\* in the deque or merged into a response (none is lost).  The deque is
\* created without maxlen, so its only bound is what the children write.
C37_PumpExactlyOnce ==
    /\ \A p \in MergedAt : ret[p[1]].merged[p[2]].gen = ret[p[1]].child
    /\ \A p, q \in MergedAt : p # q => ret[p[1]].merged[p[2]] # ret[q[1]].merged[q[2]]
    /\ \A i \in 1..Len(sunk) : sunk[i].current => Kept(sunk[i].chunk)

====
